---- MODULE Spec2Model ----
(***************************************************************************)
(* Tiered vector (tiered-vec-rs).                                          *)
(*                                                                         *)
(* The module models                                                       *)
(*   - RawTier of src/src/tier.rs: a ring buffer of MaybeUninit slots with *)
(*     wrapping head/tail cursors (the Result-returning tier),             *)
(*   - LinkedTieredVec of src/src/linked/tiered_vec.rs: a Vec of such      *)
(*     tiers with expand / try_contract / insert / remove,                 *)
(*   - Tier and FlatTieredVec of src/src/flat: the single-allocation       *)
(*     variant, with the allocation modelled word by word for T = usize.   *)
(*                                                                         *)
(* A slot is a natural number: a stored element (>= 1) or Uninit (0), the  *)
(* content of a slot that was never written or whose value was moved out.  *)
(* Reading an Uninit slot is undefined behaviour in the source: the read   *)
(* may produce any bit pattern.  The model carries the marker along as the *)
(* value read, and no property below accepts the marker as a stored        *)
(* element, so a property that needs a definite element in such a slot is  *)
(* violated, as it is by at least one outcome of the read.                 *)
(*                                                                         *)
(* An Option<T> is a sequence of length 0 (None) or 1 (Some).              *)
(***************************************************************************)
EXTENDS Integers, Sequences, FiniteSets, TLC

\* ------------------------------------------------------------------------
\* usize arithmetic.  The cursors are usize with wrapping_add/wrapping_sub;
\* the width is reduced to 10 bits (the top bit has an odd index, as bit 63
\* has), every capacity in the model divides 2^10.
\* ------------------------------------------------------------------------
UsizeBits == 10

UsizeMod == 1024

Uninit == 0

WAdd(a, b) == (a + b) % UsizeMod

WSub(a, b) == (a - b + UsizeMod) % UsizeMod

RECURSIVE BitAnd(_, _)
BitAnd(a, b) ==
    IF a = 0 \/ b = 0 THEN 0
    ELSE (IF a % 2 = 1 /\ b % 2 = 1 THEN 1 ELSE 0) + 2 * BitAnd(a \div 2, b \div 2)

is_power_of_two(n) == n > 0 /\ BitAnd(n, n - 1) = 0

RECURSIVE next_power_of_two_from(_, _)
next_power_of_two_from(p, n) == IF p >= n THEN p ELSE next_power_of_two_from(2 * p, n)

\* on overflow: a panic with overflow checks (next_power_of_two_overflows),
\* else the value wraps to 0
next_power_of_two_overflows(n) == next_power_of_two_from(1, n) >= UsizeMod

next_power_of_two(n) == next_power_of_two_from(1, n) % UsizeMod

RECURSIVE trailing_zeros(_)
trailing_zeros(n) ==
    IF n = 0 THEN UsizeBits
    ELSE IF n % 2 = 1 THEN 0 ELSE 1 + trailing_zeros(n \div 2)

RECURSIVE Pow2(_)
Pow2(k) == IF k = 0 THEN 1 ELSE 2 * Pow2(k - 1)

\* Vec<MaybeUninit<T>> of n uninitialised slots
UninitBuffer(n) == [i \in 1..n |-> Uninit]

\* slice::rotate_left(k): the element at index k moves to index 0
rotate_left(s, k) == SubSeq(s, k + 1, Len(s)) \o SubSeq(s, 1, k)

\* ------------------------------------------------------------------------
\* RawTier (src/src/tier.rs).  A tier is [buffer, head, tail]; physical slot
\* i of the source is buffer[i + 1].
\* ------------------------------------------------------------------------
\* vcap is the capacity of the Vec behind buffer (its allocation), which
\* split_off leaves as it was and reserve_exact raises only when it is too
\* small; Vec::with_capacity and reserve_exact allocate what they are asked
RawTier_new(capacity) ==
    [buffer |-> UninitBuffer(capacity), head |-> 0, tail |-> 0, vcap |-> capacity]

mask(t, val) == BitAnd(val, Len(t.buffer) - 1)

tier_capacity(t) == Len(t.buffer)

tier_len(t) == WSub(t.tail, t.head)

tier_is_empty(t) == t.head = t.tail

tier_is_full(t) == tier_len(t) = tier_capacity(t)

head_forward(t) == [t EXCEPT !.head = WAdd(t.head, 1)]

head_backward(t) == [t EXCEPT !.head = WSub(t.head, 1)]

tail_forward(t) == [t EXCEPT !.tail = WAdd(t.tail, 1)]

tail_backward(t) == [t EXCEPT !.tail = WSub(t.tail, 1)]

masked_head(t) == mask(t, t.head)

masked_tail(t) == mask(t, t.tail)

masked_rank(t, rank) == mask(t, WAdd(t.head, rank))

contains_masked_rank(t, mr) ==
    IF tier_is_empty(t) THEN FALSE
    ELSE IF tier_is_full(t) THEN TRUE
    ELSE IF masked_head(t) < masked_tail(t)
         THEN mr >= masked_head(t) /\ mr < masked_tail(t)
         ELSE mr >= masked_head(t) \/ mr < masked_tail(t)

contains_rank(t, rank) == contains_masked_rank(t, masked_rank(t, rank))

\* get: None outside the live window, else the slot (assume_init_ref)
tier_get(t, idx) == IF ~contains_masked_rank(t, idx) THEN <<>> ELSE <<t.buffer[idx + 1]>>

tier_get_by_rank(t, rank) == tier_get(t, masked_rank(t, rank))

\* rotate_reset turning the buffer the other way
rotate_reset_right(t) ==
    [buffer |-> rotate_left(t.buffer, tier_capacity(t) - masked_head(t)),
     head |-> 0, tail |-> tier_len(t), vcap |-> t.vcap]

rotate_reset(t) ==
    [buffer |-> rotate_left(t.buffer, masked_head(t)), head |-> 0, tail |-> tier_len(t),
     vcap |-> t.vcap]

set(t, idx, elem) == [t EXCEPT !.buffer[idx + 1] = elem]

\* mem::replace(slot, MaybeUninit::uninit()).assume_init()
take(t, idx) == [t |-> [t EXCEPT !.buffer[idx + 1] = Uninit], elem |-> t.buffer[idx + 1]]

replace(t, idx, elem) == [t |-> [t EXCEPT !.buffer[idx + 1] = elem], elem |-> t.buffer[idx + 1]]

\* Results of the tier calls: [t |-> the tier afterwards, res |-> <<tag, ...>>]
push_front(t, elem) ==
    IF ~tier_is_full(t)
    THEN LET t1 == head_backward(t)
             idx == masked_head(t1)
         IN [t |-> set(t1, idx, elem), res |-> <<"Ok", idx>>]
    ELSE [t |-> t, res |-> <<"TierFullInsertionError", elem>>]

push_back_overwriting(t, elem) ==
    LET idx == masked_tail(t)
    IN IF ~tier_is_full(t)
       THEN [t |-> set(tail_forward(t), idx, elem), res |-> <<"Ok", idx>>]
       ELSE [t |-> set(t, idx, elem), res |-> <<"TierFullInsertionError", elem>>]

push_back(t, elem) ==
    IF ~tier_is_full(t)
    THEN LET idx == masked_tail(t)
             t1 == tail_forward(t)
         IN [t |-> set(t1, idx, elem), res |-> <<"Ok", idx>>]
    ELSE [t |-> t, res |-> <<"TierFullInsertionError", elem>>]

pop_front(t) ==
    IF ~tier_is_empty(t)
    THEN LET idx == masked_head(t)
             r == take(head_forward(t), idx)
         IN [t |-> r.t, res |-> <<"Ok", r.elem>>]
    ELSE [t |-> t, res |-> <<"TierEmptyError">>]

\* pop_back reading the slot at the tail before the tail moved back
pop_back_at_tail(t) ==
    IF ~tier_is_empty(t)
    THEN LET r == take(tail_backward(t), masked_tail(t))
         IN [t |-> r.t, res |-> <<"Ok", r.elem>>]
    ELSE [t |-> t, res |-> <<"TierEmptyError">>]

pop_back(t) ==
    IF ~tier_is_empty(t)
    THEN LET t1 == tail_backward(t)
             r == take(t1, masked_tail(t1))
         IN [t |-> r.t, res |-> <<"Ok", r.elem>>]
    ELSE [t |-> t, res |-> <<"TierEmptyError">>]

RECURSIVE shift_to_head_loop(_, _, _)
shift_to_head_loop(t, cursor, i) ==
    IF i # masked_head(t)
    THEN LET r == IF cursor # <<>> THEN replace(t, i, cursor[1]) ELSE take(t, i)
         IN shift_to_head_loop(r.t, <<r.elem>>, mask(t, WSub(i, 1)))
    ELSE IF cursor # <<>> THEN set(t, i, cursor[1]) ELSE t

\* shift_to_head starting one slot below `from`
shift_to_head_below(t, from) ==
    shift_to_head_loop(head_backward(t), <<>>, mask(t, WSub(from, 1)))

shift_to_head(t, from) == shift_to_head_loop(head_backward(t), <<>>, from)

RECURSIVE shift_to_tail_loop(_, _, _, _)
shift_to_tail_loop(t, mtail, cursor, i) ==
    IF i < mtail
    THEN LET r == IF cursor # <<>> THEN replace(t, i, cursor[1]) ELSE take(t, i)
         IN shift_to_tail_loop(r.t, mtail, <<r.elem>>, mask(t, WAdd(i, 1)))
    ELSE IF cursor # <<>> THEN tail_forward(set(t, i, cursor[1])) ELSE t

shift_to_tail(t, from) == shift_to_tail_loop(t, masked_tail(t), <<>>, from)

abs_diff(a, b) == IF a >= b THEN a - b ELSE b - a

tier_insert(t, rank, elem) ==
    IF tier_is_full(t) THEN [t |-> t, res |-> <<"TierFullInsertionError", elem>>]
    ELSE LET mh == masked_head(t)
             mt == masked_tail(t)
             mr == masked_rank(t, rank)
         IN IF mt = mr THEN push_back(t, elem)
            ELSE IF contains_masked_rank(t, mr)
            THEN IF mh = mr THEN push_front(t, elem)
                 ELSE LET head_delta == abs_diff(mr, mh)
                          tail_delta == abs_diff(mr, mt)
                          shifted == IF head_delta <= tail_delta
                                     THEN shift_to_head(t, mr)
                                     ELSE shift_to_tail(t, mr)
                      IN [t |-> set(shifted, mr, elem), res |-> <<"Ok", mr>>]
            ELSE [t |-> t, res |-> <<"TierDisconnectedEntryInsertionError", rank, elem>>]

\* the number of take/replace steps (elements moved one slot) of the two
\* shift loops, and of insert at rank
RECURSIVE shift_to_head_moved(_, _)
shift_to_head_moved(t, i) ==
    IF i # masked_head(t) THEN 1 + shift_to_head_moved(t, mask(t, WSub(i, 1))) ELSE 0

RECURSIVE shift_to_tail_moved(_, _, _)
shift_to_tail_moved(t, mtail, i) ==
    IF i < mtail THEN 1 + shift_to_tail_moved(t, mtail, mask(t, WAdd(i, 1))) ELSE 0

tier_insert_moved(t, rank) ==
    IF abs_diff(masked_rank(t, rank), masked_head(t)) <= abs_diff(masked_rank(t, rank), masked_tail(t))
    THEN shift_to_head_moved(head_backward(t), masked_rank(t, rank))
    ELSE shift_to_tail_moved(t, masked_tail(t), masked_rank(t, rank))

RECURSIVE close_gap_loop(_, _, _, _)
close_gap_loop(t, gap, cursor, i) ==
    IF i > gap
    THEN LET r == IF cursor # <<>> THEN replace(t, i, cursor[1]) ELSE take(t, i)
         IN close_gap_loop(r.t, gap, <<r.elem>>, mask(t, WSub(i, 1)))
    ELSE IF cursor # <<>> THEN set(t, i, cursor[1]) ELSE t

\* close_gap without the tail retraction
close_gap_no_retract(t, gap_masked_idx) ==
    close_gap_loop(t, gap_masked_idx, <<>>, masked_tail(tail_backward(t)))

close_gap(t, gap_masked_idx) ==
    LET t1 == tail_backward(t)
    IN close_gap_loop(t1, gap_masked_idx, <<>>, masked_tail(t1))

tier_remove(t, rank) ==
    IF tier_is_empty(t) THEN [t |-> t, res |-> <<"TierEmptyError">>]
    ELSE LET mr == masked_rank(t, rank)
         IN IF contains_masked_rank(t, mr)
            THEN LET r == take(t, mr)
                     t2 == IF mr = masked_head(r.t) THEN head_forward(r.t)
                           ELSE IF mr = masked_tail(r.t) THEN tail_backward(r.t)
                           ELSE close_gap(r.t, mr)
                 IN [t |-> t2, res |-> <<"Ok", r.elem>>]
            ELSE [t |-> t, res |-> <<"TierRankOutOfBoundsError", rank>>]

\* Drop for RawTier: the physical slots on which assume_init_drop runs, in
\* order
RECURSIVE drop_loop(_, _, _)
drop_loop(t, i, mtail) ==
    IF i # mtail THEN <<i>> \o drop_loop(t, mask(t, WAdd(i, 1)), mtail) ELSE <<>>

tier_drop(t) ==
    IF ~tier_is_empty(t) THEN drop_loop(t, masked_head(t), masked_tail(t)) ELSE <<>>

\* the loop of clone: i walks from head to tail with `i += 1`, which
\* overflows at 2^w - 1: a panic in a build with overflow checks, a wrap to
\* 0 in a build without
RECURSIVE clone_loop(_, _, _, _)
clone_loop(self, buffer, i, overflow_checks) ==
    IF i = self.tail
    THEN [t |-> [buffer |-> buffer, head |-> self.head, tail |-> self.tail,
                 vcap |-> self.vcap],
          panic |-> FALSE]
    ELSE IF tier_get(self, mask(self, i)) = <<>> \/ (i = UsizeMod - 1 /\ overflow_checks)
    THEN [t |-> self, panic |-> TRUE]
    ELSE clone_loop(self,
                    [buffer EXCEPT ![mask(self, i) + 1] = self.buffer[mask(self, i) + 1]],
                    WAdd(i, 1), overflow_checks)

\* clone: [t |-> the clone, panic |-> the walk overflowed or an expect() fired]
tier_clone(self, overflow_checks) ==
    clone_loop(self, UninitBuffer(self.vcap), self.head, overflow_checks)

\* merge: [t |-> the merged tier, panic |-> an expect() fired]
RECURSIVE merge_loop(_, _)
merge_loop(self, other) ==
    LET p == pop_front(other)
    IN IF p.res[1] = "Ok"
       THEN LET q == push_back(self, p.res[2])
            IN IF q.res[1] = "Ok" THEN merge_loop(q.t, p.t)
               ELSE [t |-> q.t, panic |-> TRUE]
       ELSE [t |-> self, panic |-> FALSE]

\* Vec::reserve_exact(additional) on a Vec of length len and capacity vcap,
\* followed by set_len(capacity()): the new length
reserve_exact(len, vcap, additional) ==
    IF vcap >= len + additional THEN vcap ELSE len + additional

\* the tier with its buffer grown by reserve_exact(additional) and set_len
grown(t, additional) ==
    [t EXCEPT !.buffer = t.buffer \o UninitBuffer(reserve_exact(Len(t.buffer), t.vcap, additional)
                                                       - Len(t.buffer)),
              !.vcap = reserve_exact(Len(t.buffer), t.vcap, additional)]

merge(self, other) == merge_loop(grown(rotate_reset(self), tier_capacity(other)), other)

saturating_sub(a, b) == IF a >= b THEN a - b ELSE 0

\* split_half without the rotate_reset
split_half_unrotated(self) ==
    [t |-> [buffer |-> SubSeq(self.buffer, 1, tier_capacity(self) \div 2),
            head |-> 0,
            tail |-> tier_len(self) - saturating_sub(tier_len(self), tier_capacity(self) \div 2),
            vcap |-> self.vcap],
     half |-> [buffer |-> SubSeq(self.buffer, tier_capacity(self) \div 2 + 1, Len(self.buffer)),
               head |-> 0,
               tail |-> saturating_sub(tier_len(self), tier_capacity(self) \div 2),
               vcap |-> Len(self.buffer) - tier_capacity(self) \div 2]]

\* split_half: [t |-> self afterwards, half |-> the returned tier]
split_half(self) ==
    LET r == rotate_reset(self)
        count == tier_len(r)
        new_capacity == tier_capacity(r) \div 2
        new_buffer == SubSeq(r.buffer, new_capacity + 1, Len(r.buffer))
        remaining_tail == saturating_sub(count, new_capacity)
    IN [t |-> [buffer |-> SubSeq(r.buffer, 1, new_capacity),
               head |-> 0,
               tail |-> saturating_sub(count, remaining_tail),
               vcap |-> r.vcap],
        half |-> [buffer |-> new_buffer, head |-> 0, tail |-> remaining_tail,
                  vcap |-> Len(new_buffer)]]

\* ------------------------------------------------------------------------
\* LinkedTieredVec (src/src/linked/tiered_vec.rs) over the tier above.
\* The vector is its field `tiers`, a sequence of tiers; tier i of the
\* source is ts[i + 1].
\* ------------------------------------------------------------------------
\* the two assertions of new
new_asserts_power_of_two(initial_tier_size) == is_power_of_two(initial_tier_size)

new_asserts(initial_tier_size) ==
    is_power_of_two(initial_tier_size) /\ initial_tier_size >= 2

LinkedTieredVec_new(initial_tier_size) ==
    [i \in 1..initial_tier_size |-> RawTier_new(initial_tier_size)]

\* with_minimum_capacity panics on its assertion, and on the overflow of
\* next_power_of_two in a build with overflow checks
with_minimum_capacity_panics(min_capacity, overflow_checks) ==
    \/ min_capacity < 4
    \/ /\ overflow_checks
       /\ ~is_power_of_two(min_capacity)
       /\ next_power_of_two_overflows(min_capacity)

with_minimum_capacity(min_capacity) ==
    LET c0 == IF ~is_power_of_two(min_capacity)
              THEN next_power_of_two(min_capacity) ELSE min_capacity
        trailing == trailing_zeros(c0)
        even == BitAnd(trailing, 1) = 0
        shift_count == IF even THEN trailing \div 2 ELSE (trailing + 1) \div 2
        capacity == IF even THEN c0 ELSE (c0 * 2) % UsizeMod
        tier_size == capacity \div Pow2(shift_count)
    IN [i \in 1..tier_size |-> RawTier_new(tier_size)]

tier_size(ts) == Len(ts)

tier_idx(ts, idx) == idx \div tier_size(ts)

\* capacity() as a sum instead of a product
capacity_sum(ts) == tier_size(ts) + Len(ts)

capacity(ts) == tier_size(ts) * Len(ts)

RECURSIVE vec_len_loop(_, _, _)
vec_len_loop(ts, i, l) ==
    IF i > Len(ts) THEN l
    ELSE IF tier_len(ts[i]) = 0 THEN l
    ELSE vec_len_loop(ts, i + 1, l + tier_len(ts[i]))

vec_len(ts) == vec_len_loop(ts, 1, 0)

is_empty(ts) == tier_is_empty(ts[1])

is_full(ts) == tier_is_full(ts[Len(ts)])

get_by_rank(ts, rank) ==
    IF tier_idx(ts, rank) >= Len(ts) THEN <<>>
    ELSE tier_get_by_rank(ts[tier_idx(ts, rank) + 1], rank)

\* Vec::remove(i) and Vec::insert(i, x), i counted from 0
vec_remove(s, i) == SubSeq(s, 1, i) \o SubSeq(s, i + 2, Len(s))

vec_insert(s, i, x) == SubSeq(s, 1, i) \o <<x>> \o SubSeq(s, i + 1, Len(s))


\* expand / try_contract: [tiers |-> ..., panic |-> an expect()/assert fired]
RECURSIVE expand_merge_loop(_, _, _)
\* the rest of one round of expand's loop, m the result of first_tier.merge
expand_merged(rest, i, n, m) ==
    IF m.panic THEN [tiers |-> [rest EXCEPT ![i + 1] = m.t], panic |-> TRUE]
    ELSE expand_merge_loop([rest EXCEPT ![i + 1] = m.t], i + 1, n)

expand_merge_loop(ts, i, n) ==
    IF i >= n THEN [tiers |-> ts, panic |-> FALSE]
    ELSE IF i + 1 >= Len(ts) THEN [tiers |-> ts, panic |-> TRUE]
    ELSE expand_merged(vec_remove(ts, i + 1), i, n, merge(ts[i + 1], ts[i + 2]))

\* the second loop of expand: push `count` new tiers
expand_push(r, new_tier_size, count) ==
    IF r.panic THEN r
    ELSE [tiers |-> r.tiers \o [k \in 1..count |-> RawTier_new(new_tier_size)],
          panic |-> FALSE]


expand(ts) ==
    LET curr_tier_size == tier_size(ts)
        new_tier_size == 2 * tier_size(ts)
    IN expand_push(expand_merge_loop(ts, 0, curr_tier_size \div 2),
                   new_tier_size, new_tier_size - (curr_tier_size \div 2))


RECURSIVE try_contract_loop(_, _, _)
\* the rest of one round of try_contract's loop, sh the result of split_half
try_contract_split(ts, i, new_tier_size, sh) ==
    IF tier_capacity(sh.half) # new_tier_size
    THEN [tiers |-> [ts EXCEPT ![i + 1] = sh.t], panic |-> TRUE]
    ELSE try_contract_loop(vec_insert([ts EXCEPT ![i + 1] = sh.t], i + 1, sh.half),
                           i + 2, new_tier_size)

try_contract_loop(ts, i, new_tier_size) ==
    IF i >= new_tier_size
    THEN [tiers |-> ts, panic |-> Len(ts) # new_tier_size]
    ELSE IF i >= Len(ts) THEN [tiers |-> ts, panic |-> TRUE]
    ELSE try_contract_split(ts, i, new_tier_size, split_half(ts[i + 1]))

\* try_contract with the threshold capacity / 2
try_contract_below_half(ts, num_entries) ==
    IF num_entries < capacity(ts) \div 2
    THEN try_contract_loop(SubSeq(ts, 1, (tier_size(ts) \div 2) \div 2), 0,
                           tier_size(ts) \div 2)
    ELSE [tiers |-> ts, panic |-> FALSE]

\* try_contract with the threshold capacity / 4
try_contract_at_quarter(ts, num_entries) ==
    IF num_entries < capacity(ts) \div 4
    THEN try_contract_loop(SubSeq(ts, 1, (tier_size(ts) \div 2) \div 2), 0,
                           tier_size(ts) \div 2)
    ELSE [tiers |-> ts, panic |-> FALSE]

\* try_contract with the threshold `<=` (as in src/tiered_vec.rs)
try_contract_inclusive(ts, num_entries) ==
    IF num_entries <= capacity(ts) \div 8
    THEN LET new_tier_size == tier_size(ts) \div 2
         IN try_contract_loop(SubSeq(ts, 1, new_tier_size \div 2), 0, new_tier_size)
    ELSE [tiers |-> ts, panic |-> FALSE]

try_contract(ts, num_entries) ==
    IF num_entries < capacity(ts) \div 8
    THEN LET new_tier_size == tier_size(ts) \div 2
         IN try_contract_loop(SubSeq(ts, 1, new_tier_size \div 2), 0, new_tier_size)
    ELSE [tiers |-> ts, panic |-> FALSE]

\* the "pop-push phase" of insert, for i in tier_idx..tiers.len()
RECURSIVE insert_pop_push(_, _, _)
insert_pop_push(ts, i, prev_popped) ==
    IF i >= Len(ts) THEN [tiers |-> ts, panic |-> FALSE]
    ELSE IF tier_is_full(ts[i + 1])
    THEN LET p == pop_front(ts[i + 1])
         IN IF p.res[1] = "Ok"
            THEN IF prev_popped # <<>>
                 THEN LET q == push_back(p.t, prev_popped[1])
                      IN IF q.res[1] = "Ok"
                         THEN insert_pop_push([ts EXCEPT ![i + 1] = q.t], i + 1, <<p.res[2]>>)
                         ELSE [tiers |-> [ts EXCEPT ![i + 1] = q.t], panic |-> TRUE]
                 ELSE insert_pop_push([ts EXCEPT ![i + 1] = p.t], i + 1, <<p.res[2]>>)
            ELSE insert_pop_push(ts, i + 1, prev_popped)
    ELSE IF prev_popped # <<>>
         THEN LET q == push_back(ts[i + 1], prev_popped[1])
              IN IF q.res[1] = "Ok"
                 THEN insert_pop_push([ts EXCEPT ![i + 1] = q.t], i + 1, <<>>)
                 ELSE [tiers |-> [ts EXCEPT ![i + 1] = q.t], panic |-> TRUE]
         ELSE insert_pop_push(ts, i + 1, <<>>)


\* insert / remove: [tiers |-> ..., res |-> <<tag, ...>>]; the tag "panic"
\* stands for an expect(), unreachable!() or assert that fired, with the
\* tiers as they were at that point.  insert and remove are split at the
\* values they bind: each part takes the value bound before it.
\* insert after tier.insert(rank, elem) returned r
insert_shifted(ts, ti, rank, r) ==
    IF r.res[1] = "Ok"
    THEN [tiers |-> [ts EXCEPT ![ti + 1] = r.t], res |-> <<"Ok", rank>>]
    ELSE [tiers |-> ts, res |-> <<"panic">>]

\* insert after the pop-push phase returned c: the shift phase
insert_shift_phase(c, ti, rank, elem) ==
    IF c.panic THEN [tiers |-> c.tiers, res |-> <<"panic">>]
    ELSE insert_shifted(c.tiers, ti, rank, tier_insert(c.tiers[ti + 1], rank, elem))

\* insert after the capacity test returned e, with ti == tier_idx(rank)
insert_pop_push_phase(e, ti, rank, elem) ==
    IF e.panic \/ ti >= Len(e.tiers) THEN [tiers |-> e.tiers, res |-> <<"panic">>]
    ELSE insert_shift_phase(IF tier_is_full(e.tiers[ti + 1])
                            THEN insert_pop_push(e.tiers, ti, <<>>)
                            ELSE [tiers |-> e.tiers, panic |-> FALSE],
                            ti, rank, elem)

insert_expanded(e, rank, elem) ==
    insert_pop_push_phase(e, tier_idx(e.tiers, rank), rank, elem)

\* insert without the range test on rank
insert_unchecked(ts, num_entries, rank, elem) ==
    insert_expanded(IF num_entries = capacity(ts) THEN expand(ts)
                    ELSE [tiers |-> ts, panic |-> FALSE],
                    rank, elem)

insert_checked(ts, num_entries, rank, elem) ==
    IF rank > num_entries
    THEN [tiers |-> ts, res |-> <<"TieredVectorOutofBoundsInsertionError", rank, elem>>]
    ELSE insert_expanded(IF num_entries = capacity(ts) THEN expand(ts)
                         ELSE [tiers |-> ts, panic |-> FALSE],
                         rank, elem)

insert(ts, rank, elem) == insert_checked(ts, vec_len(ts), rank, elem)

\* the "pop-push phase" of remove, for i in (tier_idx + 1..last_tier_idx + 1).rev()
RECURSIVE remove_pop_push(_, _, _, _)
remove_pop_push(ts, i, lo, prev_popped) ==
    IF i < lo THEN [tiers |-> ts, prev_popped |-> prev_popped, panic |-> FALSE]
    ELSE IF i >= Len(ts) THEN [tiers |-> ts, prev_popped |-> prev_popped, panic |-> TRUE]
    ELSE LET p == pop_front(ts[i + 1])
         IN IF p.res[1] = "Ok"
            THEN IF prev_popped # <<>>
                 THEN LET q == push_back(p.t, prev_popped[1])
                      IN IF q.res[1] = "Ok"
                         THEN remove_pop_push([ts EXCEPT ![i + 1] = q.t], i - 1, lo, <<p.res[2]>>)
                         ELSE [tiers |-> [ts EXCEPT ![i + 1] = q.t],
                               prev_popped |-> <<>>, panic |-> TRUE]
                 ELSE remove_pop_push([ts EXCEPT ![i + 1] = p.t], i - 1, lo, <<p.res[2]>>)
            ELSE remove_pop_push(ts, i - 1, lo, prev_popped)


\* remove after the final push_back into the target tier returned q
remove_pushed(ts, ti, removed, q) ==
    IF q.res[1] = "Ok"
    THEN [tiers |-> [ts EXCEPT ![ti + 1] = q.t], res |-> <<"Ok", removed>>]
    ELSE [tiers |-> ts, res |-> <<"panic">>]

\* remove after the pop-push phase returned c
remove_popped(c, ti, removed) ==
    IF c.panic THEN [tiers |-> c.tiers, res |-> <<"panic">>]
    ELSE IF c.prev_popped # <<>>
    THEN remove_pushed(c.tiers, ti, removed, push_back(c.tiers[ti + 1], c.prev_popped[1]))
    ELSE [tiers |-> c.tiers, res |-> <<"Ok", removed>>]

\* remove after target_tier.remove(rank) returned r: the match
remove_shifted(ts, ti, last_tier_idx, r) ==
    IF r.res[1] = "TierEmptyError"
    THEN [tiers |-> ts, res |-> <<"TieredVectorEmptyError">>]
    ELSE IF r.res[1] = "TierRankOutOfBoundsError"
    THEN [tiers |-> ts, res |-> <<"TieredVectorRankOutOfBoundsError", r.res[2]>>]
    ELSE remove_popped(remove_pop_push([ts EXCEPT ![ti + 1] = r.t],
                                       last_tier_idx, ti + 1, <<>>),
                       ti, r.res[2])

\* remove after try_contract returned k, with ti == tier_idx(rank)
remove_shift_phase(k, ti, num_entries, rank) ==
    IF k.panic \/ ti >= Len(k.tiers) THEN [tiers |-> k.tiers, res |-> <<"panic">>]
    ELSE remove_shifted(k.tiers, ti, tier_idx(k.tiers, num_entries),
                        tier_remove(k.tiers[ti + 1], rank))

remove_contracted(k, num_entries, rank) ==
    remove_shift_phase(k, tier_idx(k.tiers, rank), num_entries, rank)

remove_checked(ts, num_entries, rank) ==
    IF rank > num_entries
    THEN [tiers |-> ts, res |-> <<"TieredVectorRankOutOfBoundsError", rank>>]
    ELSE remove_contracted(try_contract(ts, num_entries), num_entries, rank)

remove(ts, rank) == remove_checked(ts, vec_len(ts), rank)

\* ------------------------------------------------------------------------
\* Tier of src/src/flat/tier.rs: #[repr(C)] { head, tail, elements: [..] },
\* an assert-based tier that lives inside the vector's single allocation.
\* A tier value is [head, tail, elements]; slot i is elements[i + 1].
\* Results are [t |-> the tier afterwards, elem |-> ..., panic |-> an assert
\* fired].  take_element is assume_init_read: the slot keeps its bits.
\* ------------------------------------------------------------------------
ft_len(t) == WSub(t.tail, t.head)

ft_capacity(t) == Len(t.elements)

ft_mask(t, val) == BitAnd(val, ft_capacity(t) - 1)

ft_is_empty(t) == t.head = t.tail

ft_is_full(t) == ft_len(t) = ft_capacity(t)

ft_tail_forward_by(t, extend_count) == [t EXCEPT !.tail = t.tail + extend_count]

ft_clear_and_leak(t) == [t EXCEPT !.head = 0, !.tail = 0]

ft_masked_head(t) == ft_mask(t, t.head)

ft_masked_tail(t) == ft_mask(t, t.tail)

ft_masked_rank(t, rank) == ft_mask(t, WAdd(t.head, rank))

ft_contains_masked_rank(t, mr) ==
    IF ft_is_full(t) THEN TRUE
    ELSE IF ft_masked_head(t) <= ft_masked_tail(t)
         THEN mr >= ft_masked_head(t) /\ mr < ft_masked_tail(t)
         ELSE mr >= ft_masked_head(t) \/ mr < ft_masked_tail(t)

ft_get(t, index) ==
    IF ~ft_contains_masked_rank(t, index) THEN <<>> ELSE <<t.elements[index + 1]>>

ft_get_by_rank(t, rank) == ft_get(t, ft_masked_rank(t, rank))

ft_rotate_reset(t) ==
    [head |-> 0, tail |-> ft_len(t),
     elements |-> rotate_left(t.elements, ft_masked_head(t))]

ft_set_element(t, index, elem) == [t EXCEPT !.elements[index + 1] = elem]

ft_take_element(t, index) == [t |-> t, elem |-> t.elements[index + 1]]

ft_replace_element(t, index, elem) ==
    [t |-> [t EXCEPT !.elements[index + 1] = elem], elem |-> t.elements[index + 1]]

ft_push_front(t, elem) ==
    IF ft_is_full(t) THEN [t |-> t, panic |-> TRUE]
    ELSE LET t1 == [t EXCEPT !.head = WSub(t.head, 1)]
         IN [t |-> ft_set_element(t1, ft_masked_head(t1), elem), panic |-> FALSE]

ft_push_back(t, elem) ==
    IF ft_is_full(t) THEN [t |-> t, panic |-> TRUE]
    ELSE LET index == ft_masked_tail(t)
             t1 == [t EXCEPT !.tail = WAdd(t.tail, 1)]
         IN [t |-> ft_set_element(t1, index, elem), panic |-> FALSE]

ft_pop_back(t) ==
    IF ft_is_empty(t) THEN [t |-> t, elem |-> Uninit, panic |-> TRUE]
    ELSE LET t1 == [t EXCEPT !.tail = WSub(t.tail, 1)]
             r == ft_take_element(t1, ft_masked_tail(t1))
         IN [t |-> r.t, elem |-> r.elem, panic |-> FALSE]

\* the shift loop bounded by `i < masked_tail`, as in src/src/tier.rs
RECURSIVE ft_shift_to_tail_loop_lt(_, _, _, _)
ft_shift_to_tail_loop_lt(t, mtail, cursor, i) ==
    IF i < mtail
    THEN LET r == IF cursor # <<>> THEN ft_replace_element(t, i, cursor[1])
                  ELSE ft_take_element(t, i)
         IN ft_shift_to_tail_loop_lt(r.t, mtail, <<r.elem>>, ft_mask(t, WAdd(i, 1)))
    ELSE IF cursor # <<>> THEN ft_set_element(t, i, cursor[1]) ELSE t

RECURSIVE ft_shift_to_tail_loop(_, _, _, _)
ft_shift_to_tail_loop(t, mtail, cursor, i) ==
    IF i # mtail
    THEN LET r == IF cursor # <<>> THEN ft_replace_element(t, i, cursor[1])
                  ELSE ft_take_element(t, i)
         IN ft_shift_to_tail_loop(r.t, mtail, <<r.elem>>, ft_mask(t, WAdd(i, 1)))
    ELSE IF cursor # <<>> THEN ft_set_element(t, i, cursor[1]) ELSE t

ft_shift_to_tail(t, from) ==
    LET shifted == ft_shift_to_tail_loop(t, ft_masked_tail(t), <<>>, from)
    IN [shifted EXCEPT !.tail = WAdd(shifted.tail, 1)]

ft_insert(t, rank, elem) ==
    IF ft_is_full(t) THEN [t |-> t, panic |-> TRUE]
    ELSE LET mh == ft_masked_head(t)
             mt == ft_masked_tail(t)
             mr == ft_masked_rank(t, rank)
         IN IF mt = mr THEN ft_push_back(t, elem)
            ELSE IF mh = mr THEN ft_push_front(t, elem)
            ELSE [t |-> ft_set_element(ft_shift_to_tail(t, mr), mr, elem), panic |-> FALSE]

\* ------------------------------------------------------------------------
\* FlatTieredVec (src/src/flat/tiered_vec.rs) for T = usize.  The vector is
\* [mem, tier_capacity, len]; mem is the allocation behind `ptr`, one word
\* per usize, word w of the source being mem[w + 1].  Tier i starts at word
\* i * size_of_tier(tier_capacity): head, tail, then the elements.
\* ------------------------------------------------------------------------
size_of_tier(cap) == 2 + cap

layout_for(tier_cap) == size_of_tier(tier_cap) * tier_cap

\* ptr::copy (memmove) of count words from word src to word dst
ptr_copy(mem, src, dst, count) ==
    [w \in 1..Len(mem) |->
        IF w - 1 >= dst /\ w - 1 < dst + count THEN mem[(w - 1) - dst + src + 1] ELSE mem[w]]

\* the tier that the fat pointer raw_tier_ptr_from_capacity(index, cap) views
raw_tier(mem, index, cap) ==
    LET off == index * size_of_tier(cap)
    IN [head |-> mem[off + 1], tail |-> mem[off + 2],
        elements |-> SubSeq(mem, off + 3, off + 2 + cap)]

\* writing a tier through that pointer
store_tier(mem, index, cap, t) ==
    LET off == index * size_of_tier(cap)
    IN [w \in 1..Len(mem) |->
           IF w = off + 1 THEN t.head
           ELSE IF w = off + 2 THEN t.tail
           ELSE IF w >= off + 3 /\ w <= off + 2 + cap THEN t.elements[w - off - 2]
           ELSE mem[w]]

FlatTieredVec_new(cap) ==
    [mem |-> [w \in 1..layout_for(cap) |-> 0], tier_capacity |-> cap, len |-> 0]

flat_capacity(v) == v.tier_capacity * v.tier_capacity

flat_tier_index(v, rank) == rank \div v.tier_capacity

flat_tier(v, index) == raw_tier(v.mem, index, v.tier_capacity)

flat_is_full(v) == v.len = flat_capacity(v)

\* get: the assert of raw_tier_ptr_from_capacity (index < tier_capacity)
\* is reported as "panic"
flat_get(v, index) ==
    IF flat_tier_index(v, index) >= v.tier_capacity THEN <<"panic">>
    ELSE ft_get_by_rank(flat_tier(v, flat_tier_index(v, index)), index)

\* expand: merge tiers i, i + 1 in place and move the result to slot i / 2
\* of the new layout
RECURSIVE flat_expand_loop(_, _, _)
flat_expand_loop(mem, i, curr) ==
    IF i >= curr THEN mem
    ELSE LET new_cap == 2 * curr
             m1 == store_tier(mem, i, curr, ft_rotate_reset(raw_tier(mem, i, curr)))
             m2 == store_tier(m1, i + 1, curr, ft_rotate_reset(raw_tier(m1, i + 1, curr)))
             first_tier == raw_tier(m2, i, curr)
             second_tier_len == ft_len(raw_tier(m2, i + 1, curr))
             m3 == ptr_copy(m2, (i + 1) * size_of_tier(curr) + 2,
                            i * size_of_tier(curr) + 2 + ft_len(first_tier),
                            second_tier_len)
             m4 == [m3 EXCEPT ![i * size_of_tier(curr) + 2] =
                        ft_tail_forward_by(first_tier, second_tier_len).tail]
             m5 == ptr_copy(m4, i * size_of_tier(curr),
                            (i \div 2) * size_of_tier(new_cap), size_of_tier(new_cap))
         IN flat_expand_loop(m5, i + 2, curr)

RECURSIVE flat_clear_loop(_, _, _)
flat_clear_loop(mem, i, new_cap) ==
    IF i >= new_cap THEN mem
    ELSE flat_clear_loop(
             store_tier(mem, i, new_cap, ft_clear_and_leak(raw_tier(mem, i, new_cap))),
             i + 1, new_cap)


\* realloc to new_size words: the old words, then uninitialised ones
realloc(mem, new_size) == mem \o [w \in 1..(new_size - Len(mem)) |-> Uninit]

flat_expand(v) ==
    LET curr == v.tier_capacity
        new_cap == 2 * v.tier_capacity
    IN [mem |-> flat_clear_loop(realloc(flat_expand_loop(v.mem, 0, curr), layout_for(new_cap)),
                                curr \div 2, new_cap),
        tier_capacity |-> new_cap, len |-> v.len]

\* the pop_back / push_front cascade of insert: [mem, panic]
RECURSIVE flat_insert_loop(_, _, _, _)
flat_insert_loop(mem, cap, i, prev_popped) ==
    IF i >= cap THEN [mem |-> mem, panic |-> FALSE]
    ELSE LET tier == raw_tier(mem, i, cap)
         IN IF ft_is_full(tier)
            THEN LET p == ft_pop_back(tier)
                     q == IF prev_popped # <<>> THEN ft_push_front(p.t, prev_popped[1])
                          ELSE [t |-> p.t, panic |-> FALSE]
                 IN IF p.panic \/ q.panic THEN [mem |-> mem, panic |-> TRUE]
                    ELSE flat_insert_loop(store_tier(mem, i, cap, q.t), cap, i + 1, <<p.elem>>)
            ELSE IF prev_popped # <<>>
                 THEN LET q == ft_push_front(tier, prev_popped[1])
                      IN [mem |-> store_tier(mem, i, cap, q.t), panic |-> q.panic]
                 ELSE [mem |-> mem, panic |-> FALSE]


\* insert: [v |-> the vector afterwards, panic |-> an assert fired], split
\* at the values it binds.
\* insert after tier.insert(index, elem) returned r
flat_insert_shifted(e, mem, ti, r) ==
    IF r.panic THEN [v |-> [e EXCEPT !.mem = mem], panic |-> TRUE]
    ELSE [v |-> [e EXCEPT !.mem = store_tier(mem, ti, e.tier_capacity, r.t),
                          !.len = e.len + 1],
          panic |-> FALSE]

\* insert after the cascade returned c
flat_insert_cascaded(e, ti, index, elem, c) ==
    IF ti >= e.tier_capacity \/ c.panic
    THEN [v |-> [e EXCEPT !.mem = c.mem], panic |-> TRUE]
    ELSE flat_insert_shifted(e, c.mem, ti,
                             ft_insert(raw_tier(c.mem, ti, e.tier_capacity), index, elem))

\* insert after the capacity test left the vector e
flat_insert_expanded(e, index, elem) ==
    flat_insert_cascaded(e, flat_tier_index(e, index), index, elem,
                         flat_insert_loop(e.mem, e.tier_capacity,
                                          flat_tier_index(e, index), <<>>))

flat_insert(v, index, elem) ==
    IF ~(index <= v.len) THEN [v |-> v, panic |-> TRUE]
    ELSE flat_insert_expanded(IF flat_is_full(v) THEN flat_expand(v) ELSE v, index, elem)

\* ------------------------------------------------------------------------
\* ImplicitTier (src/src/implicit/tier.rs) with its ImplicitTierRingOffsets
\* (src/src/implicit/tier_ring_offsets.rs).  The functions take a slice of
\* the vector's buffer and the ring offsets of that tier; here the pair is
\* the record [buffer, head, tail].
\* ------------------------------------------------------------------------
it_mask(t, val) == BitAnd(val, Len(t.buffer) - 1)

it_len(t) == WSub(t.tail, t.head)

it_is_full(t) == it_len(t) = Len(t.buffer)

it_masked_head(t) == it_mask(t, t.head)

it_masked_tail(t) == it_mask(t, t.tail)

it_masked_rank(t, rank) == it_mask(t, WAdd(t.head, rank))

it_masked_index_is_unused(t, masked_idx) ==
    IF it_masked_head(t) < it_masked_tail(t)
    THEN \/ masked_idx < it_masked_head(t)
         \/ masked_idx >= it_masked_tail(t) /\ masked_idx < Len(t.buffer)
    ELSE masked_idx >= it_masked_tail(t) /\ masked_idx < it_masked_head(t)

it_contains_masked_rank(t, mr) ==
    IF it_is_full(t) THEN TRUE
    ELSE IF it_masked_head(t) <= it_masked_tail(t)
         THEN mr >= it_masked_head(t) /\ mr < it_masked_tail(t)
         ELSE mr >= it_masked_head(t) \/ mr < it_masked_tail(t)

it_get(t, idx) ==
    IF it_masked_index_is_unused(t, it_mask(t, idx)) THEN <<>>
    ELSE <<t.buffer[it_mask(t, idx) + 1]>>

it_get_by_rank(t, rank) == it_get(t, WAdd(t.head, rank))

\* Results of the tier calls: [t |-> the tier afterwards, res |-> <<tag, ...>>]
it_push_front(t, elem) ==
    IF ~it_is_full(t)
    THEN [t |-> [t EXCEPT !.head = WSub(t.head, 1),
                          !.buffer[it_mask(t, WSub(t.head, 1)) + 1] = elem],
          res |-> <<"Ok", it_mask(t, WSub(t.head, 1))>>]
    ELSE [t |-> t, res |-> <<"TierFullInsertionError", elem>>]

it_push_back(t, elem) ==
    IF ~it_is_full(t)
    THEN [t |-> [t EXCEPT !.tail = WAdd(t.tail, 1), !.buffer[it_masked_tail(t) + 1] = elem],
          res |-> <<"Ok", it_masked_tail(t)>>]
    ELSE [t |-> t, res |-> <<"TierFullInsertionError", elem>>]

it_pop_front(t) ==
    IF t.head # t.tail
    THEN [t |-> [t EXCEPT !.head = WAdd(t.head, 1), !.buffer[it_masked_head(t) + 1] = Uninit],
          res |-> <<"Ok", t.buffer[it_masked_head(t) + 1]>>]
    ELSE [t |-> t, res |-> <<"TierEmptyError">>]

\* the loops of shift_to_head, shift_to_tail and close_gap: cursor is the
\* Option carried from slot to slot
RECURSIVE it_shift_to_head_loop(_, _, _)
it_shift_to_head_loop(t, cursor, i) ==
    IF i # it_masked_head(t)
    THEN it_shift_to_head_loop(
             [t EXCEPT !.buffer[i + 1] = IF cursor # <<>> THEN cursor[1] ELSE Uninit],
             <<t.buffer[i + 1]>>, it_mask(t, WSub(i, 1)))
    ELSE IF cursor # <<>> THEN [t EXCEPT !.buffer[i + 1] = cursor[1]] ELSE t

it_shift_to_head(t, from) ==
    it_shift_to_head_loop([t EXCEPT !.head = WSub(t.head, 1)], <<>>, from)

RECURSIVE it_shift_to_tail_loop(_, _, _, _)
it_shift_to_tail_loop(t, mtail, cursor, i) ==
    IF i < mtail
    THEN it_shift_to_tail_loop(
             [t EXCEPT !.buffer[i + 1] = IF cursor # <<>> THEN cursor[1] ELSE Uninit],
             mtail, <<t.buffer[i + 1]>>, it_mask(t, WAdd(i, 1)))
    ELSE IF cursor # <<>>
         THEN [t EXCEPT !.buffer[i + 1] = cursor[1], !.tail = WAdd(t.tail, 1)]
         ELSE t

it_shift_to_tail(t, from) == it_shift_to_tail_loop(t, it_masked_tail(t), <<>>, from)

\* insert_at_rank, which the vector calls as ImplicitTier::insert
it_insert(t, rank, elem) ==
    IF ~it_contains_masked_rank(t, it_masked_rank(t, rank))
    THEN IF it_masked_head(t) = it_masked_rank(t, rank) THEN it_push_front(t, elem)
         ELSE IF it_masked_tail(t) = it_masked_rank(t, rank) THEN it_push_back(t, elem)
         ELSE [t |-> t, res |-> <<"TierDisconnectedEntryInsertionError", rank, elem>>]
    ELSE [t |-> [(IF abs_diff(it_masked_rank(t, rank), it_masked_head(t))
                         <= abs_diff(it_masked_rank(t, rank), it_masked_tail(t))
                  THEN it_shift_to_head(t, it_masked_rank(t, rank))
                  ELSE it_shift_to_tail(t, it_masked_rank(t, rank)))
                 EXCEPT !.buffer[it_masked_rank(t, rank) + 1] = elem],
          res |-> <<"Ok", it_masked_rank(t, rank)>>]

RECURSIVE it_close_gap_loop(_, _, _, _)
it_close_gap_loop(t, gap, cursor, i) ==
    IF i > gap
    THEN it_close_gap_loop(
             [t EXCEPT !.buffer[i + 1] = IF cursor # <<>> THEN cursor[1] ELSE Uninit],
             gap, <<t.buffer[i + 1]>>, it_mask(t, WSub(i, 1)))
    ELSE IF cursor # <<>> THEN [t EXCEPT !.buffer[i + 1] = cursor[1]] ELSE t

it_close_gap(t, gap_masked_idx) ==
    it_close_gap_loop([t EXCEPT !.tail = WSub(t.tail, 1)], gap_masked_idx, <<>>,
                      it_mask(t, WSub(t.tail, 1)))

\* remove_at_rank after take(masked_rank) left the tier as taken
it_remove_taken(taken, mr) ==
    IF mr = it_masked_head(taken) THEN [taken EXCEPT !.head = WAdd(taken.head, 1)]
    ELSE IF mr = it_masked_tail(taken) THEN [taken EXCEPT !.tail = WSub(taken.tail, 1)]
    ELSE it_close_gap(taken, mr)

\* remove_at_rank, which the vector calls as ImplicitTier::remove
it_remove(t, rank) ==
    IF it_contains_masked_rank(t, it_masked_rank(t, rank))
    THEN [t |-> it_remove_taken([t EXCEPT !.buffer[it_masked_rank(t, rank) + 1] = Uninit],
                                it_masked_rank(t, rank)),
          res |-> <<"Ok", t.buffer[it_masked_rank(t, rank) + 1]>>]
    ELSE [t |-> t, res |-> <<"TierRankOutOfBoundsError", rank>>]

\* the live elements of a tier in rank order
it_elements(t) == [i \in 1..it_len(t) |-> t.buffer[it_masked_rank(t, i - 1) + 1]]

\* ImplicitTier::merge_neighbors on a slice of two tiers with the offsets a
\* and b: the elements of the first tier, then those of the second, from
\* slot 0 of the slice; the result is [buffer, head, tail] of the merged
\* tier
it_merge_neighbors(slice, a, b) ==
    [buffer |-> it_elements([buffer |-> SubSeq(slice, 1, Len(slice) \div 2),
                             head |-> a.head, tail |-> a.tail])
                \o it_elements([buffer |-> SubSeq(slice, Len(slice) \div 2 + 1, Len(slice)),
                                head |-> b.head, tail |-> b.tail])
                \o UninitBuffer(Len(slice) - WSub(a.tail, a.head) - WSub(b.tail, b.head)),
     head |-> 0,
     tail |-> WSub(a.tail, a.head) + WSub(b.tail, b.head)]

\* ImplicitTier::split_half: the tier is rotated to head 0, the lower half
\* of the slice stays the tier, the upper half is the new tier; the result
\* is [buffer |-> the slice, lower |-> offsets of the tier, upper |-> offsets
\* of the new tier]
it_split_half(t) ==
    [buffer |-> rotate_left(t.buffer, it_masked_head(t)),
     lower |-> [head |-> 0,
                tail |-> it_len(t) - saturating_sub(it_len(t), Len(t.buffer) \div 2)],
     upper |-> [head |-> 0, tail |-> saturating_sub(it_len(t), Len(t.buffer) \div 2)]]

\* ------------------------------------------------------------------------
\* ImplicitTieredVec (src/src/implicit/tiered_vec.rs): { offsets, buffer },
\* tier i is the slice buffer[i * tier_size .. (i + 1) * tier_size] with the
\* ring offsets offsets[i].  A vector value is [offsets, buffer]; results
\* are [v |-> the vector afterwards, res |-> <<tag, ...>>], the tag "panic"
\* for an index out of range, an expect() or an assert that fired.
\* ------------------------------------------------------------------------
ImplicitTieredVec_new(initial_tier_size) ==
    [offsets |-> [i \in 1..initial_tier_size |-> [head |-> 0, tail |-> 0]],
     buffer |-> UninitBuffer(initial_tier_size * initial_tier_size)]

\* the slice of `size` slots at `start` with the ring offsets o, as a tier
implicit_slice(v, start, size, o) ==
    [buffer |-> SubSeq(v.buffer, start + 1, start + size), head |-> o.head, tail |-> o.tail]

\* tier i of the vector
implicit_tier(v, i) == implicit_slice(v, i * Len(v.offsets), Len(v.offsets), v.offsets[i + 1])

\* the buffer with the slice at `start` overwritten by the slots of b
implicit_write(buffer, start, b) ==
    [k \in 1..Len(buffer) |->
        IF k > start /\ k <= start + Len(b) THEN b[k - start] ELSE buffer[k]]

\* the vector with tier i and its ring offsets overwritten by t
implicit_store(v, i, t) ==
    [offsets |-> [v.offsets EXCEPT ![i + 1] = [head |-> t.head, tail |-> t.tail]],
     buffer |-> implicit_write(v.buffer, i * Len(v.offsets), t.buffer)]

RECURSIVE implicit_len_loop(_, _, _)
implicit_len_loop(offsets, i, l) ==
    IF i > Len(offsets) THEN l
    ELSE IF WSub(offsets[i].tail, offsets[i].head) = 0 THEN l
    ELSE implicit_len_loop(offsets, i + 1, l + WSub(offsets[i].tail, offsets[i].head))

implicit_len(v) == implicit_len_loop(v.offsets, 1, 0)

implicit_tier_idx(v, rank) == rank \div Len(v.offsets)

implicit_get_by_rank(v, rank) ==
    IF (implicit_tier_idx(v, rank) + 1) * Len(v.offsets) > Len(v.buffer)
       \/ implicit_tier_idx(v, rank) >= Len(v.offsets)
    THEN <<"panic">>
    ELSE <<"Ok", it_get_by_rank(implicit_tier(v, implicit_tier_idx(v, rank)), rank)>>

\* get_mut_by_rank slices the buffer at tier_idx, not at tier_idx * tier_size
implicit_get_mut_by_rank(v, rank) ==
    IF implicit_tier_idx(v, rank) + Len(v.offsets) > Len(v.buffer)
       \/ implicit_tier_idx(v, rank) >= Len(v.offsets)
    THEN <<"panic">>
    ELSE <<"Ok", it_get_by_rank(implicit_slice(v, implicit_tier_idx(v, rank), Len(v.offsets),
                                               v.offsets[implicit_tier_idx(v, rank) + 1]),
                                rank)>>

\* the first loop of expand, for i in 0..(curr_tier_size / 2); m is the
\* merged tier of round i
RECURSIVE implicit_expand_loop(_, _, _, _)
implicit_expand_merged(v, i, n, cts, m) ==
    implicit_expand_loop(
        [offsets |-> [vec_remove(v.offsets, i + 1)
                          EXCEPT ![i + 1] = [head |-> m.head, tail |-> m.tail]],
         buffer |-> implicit_write(v.buffer, i * cts, m.buffer)],
        i + 1, n, cts)

implicit_expand_loop(v, i, n, cts) ==
    IF i >= n THEN [v |-> v, panic |-> FALSE]
    ELSE IF i + 1 >= Len(v.offsets) \/ i * cts + 2 * cts > Len(v.buffer)
    THEN [v |-> v, panic |-> TRUE]
    ELSE implicit_expand_merged(v, i, n, cts,
             it_merge_neighbors(SubSeq(v.buffer, i * cts + 1, i * cts + 2 * cts),
                                v.offsets[i + 1], v.offsets[i + 2]))

\* the rest of expand: push the new ring offsets, resize the buffer
implicit_expand_resize(r, cts) ==
    IF r.panic THEN r
    ELSE [v |-> [offsets |-> r.v.offsets
                     \o [k \in 1..(2 * cts - cts \div 2) |-> [head |-> 0, tail |-> 0]],
                 buffer |-> r.v.buffer \o UninitBuffer(4 * cts * cts - Len(r.v.buffer))],
          panic |-> FALSE]

implicit_expand(v) ==
    implicit_expand_resize(
        implicit_expand_loop(v, 0, Len(v.offsets) \div 2, Len(v.offsets)), Len(v.offsets))

\* the loop of try_contract, for i in (0..new_tier_size).step_by(2); sh is
\* the result of split_half in round i
RECURSIVE implicit_try_contract_loop(_, _, _, _)
implicit_try_contract_split(v, i, nts, cts, sh) ==
    implicit_try_contract_loop(
        [offsets |-> vec_insert([v.offsets EXCEPT ![i + 1] = sh.lower], i + 1, sh.upper),
         buffer |-> implicit_write(v.buffer, i * cts, sh.buffer)],
        i + 2, nts, cts)

implicit_try_contract_loop(v, i, nts, cts) ==
    IF i >= nts
    THEN [v |-> [v EXCEPT !.buffer = SubSeq(v.buffer, 1, (nts \div 2) * cts)],
          panic |-> Len(v.offsets) # nts]
    ELSE IF i >= Len(v.offsets) \/ i * cts + cts > Len(v.buffer)
    THEN [v |-> v, panic |-> TRUE]
    ELSE implicit_try_contract_split(v, i, nts, cts,
             it_split_half(implicit_slice(v, i * cts, cts, v.offsets[i + 1])))

implicit_try_contract(v, num_entries) ==
    IF num_entries < Len(v.buffer) \div 8
    THEN implicit_try_contract_loop(
             [v EXCEPT !.offsets = SubSeq(v.offsets, 1, (Len(v.offsets) \div 2) \div 2)],
             0, Len(v.offsets) \div 2, Len(v.offsets))
    ELSE [v |-> v, panic |-> FALSE]

\* the "pop-push phase" of insert, for i in offset_idx..tier_size; p is the
\* result of pop_front on tier i, q of the push_back that follows
RECURSIVE implicit_insert_pop_push(_, _, _)
implicit_insert_pushed(v, i, q, prev_popped) ==
    IF q.res[1] = "Ok"
    THEN implicit_insert_pop_push(implicit_store(v, i, q.t), i + 1, prev_popped)
    ELSE [v |-> v, panic |-> TRUE]

implicit_insert_popped(v, i, p, prev_popped) ==
    IF p.res[1] # "Ok" THEN implicit_insert_pop_push(v, i + 1, prev_popped)
    ELSE IF prev_popped # <<>>
    THEN implicit_insert_pushed(v, i, it_push_back(p.t, prev_popped[1]), <<p.res[2]>>)
    ELSE implicit_insert_pop_push(implicit_store(v, i, p.t), i + 1, <<p.res[2]>>)

implicit_insert_pop_push(v, i, prev_popped) ==
    IF i >= Len(v.offsets) THEN [v |-> v, panic |-> FALSE]
    ELSE IF (i + 1) * Len(v.offsets) > Len(v.buffer) THEN [v |-> v, panic |-> TRUE]
    ELSE IF it_is_full(implicit_tier(v, i))
    THEN implicit_insert_popped(v, i, it_pop_front(implicit_tier(v, i)), prev_popped)
    ELSE IF prev_popped # <<>>
    THEN implicit_insert_pushed(v, i, it_push_back(implicit_tier(v, i), prev_popped[1]), <<>>)
    ELSE implicit_insert_pop_push(v, i + 1, <<>>)

\* insert after ImplicitTier::insert(tier, ring_offsets, rank, elem) returned r
implicit_insert_shifted(v, oi, rank, r) ==
    IF r.res[1] = "Ok"
    THEN [v |-> implicit_store(v, oi, r.t), res |-> <<"Ok", rank>>]
    ELSE [v |-> v, res |-> <<"panic">>]

\* insert after the pop-push phase returned c: the shift phase
implicit_insert_shift_phase(c, oi, rank, elem) ==
    IF c.panic \/ (oi + 1) * Len(c.v.offsets) > Len(c.v.buffer)
    THEN [v |-> c.v, res |-> <<"panic">>]
    ELSE implicit_insert_shifted(c.v, oi, rank, it_insert(implicit_tier(c.v, oi), rank, elem))

\* insert after the capacity test returned e, with oi == tier_idx(rank)
implicit_insert_expanded(e, oi, rank, elem) ==
    IF e.panic \/ oi >= Len(e.v.offsets) THEN [v |-> e.v, res |-> <<"panic">>]
    ELSE implicit_insert_shift_phase(
             IF WSub(e.v.offsets[oi + 1].tail, e.v.offsets[oi + 1].head) = Len(e.v.offsets)
             THEN implicit_insert_pop_push(e.v, oi, <<>>)
             ELSE [v |-> e.v, panic |-> FALSE],
             oi, rank, elem)

implicit_insert_checked(e, rank, elem) ==
    implicit_insert_expanded(e, implicit_tier_idx(e.v, rank), rank, elem)

implicit_insert(v, rank, elem) ==
    IF rank > implicit_len(v)
    THEN [v |-> v, res |-> <<"TieredVectorOutofBoundsInsertionError", rank, elem>>]
    ELSE implicit_insert_checked(IF implicit_len(v) = Len(v.buffer) THEN implicit_expand(v)
                                 ELSE [v |-> v, panic |-> FALSE],
                                 rank, elem)

\* buffer.swap(a, b), a and b counted from 0
implicit_swap(buffer, a, b) == [buffer EXCEPT ![a + 1] = buffer[b + 1], ![b + 1] = buffer[a + 1]]

\* the swap loop of remove, for cursor_offset_idx in offset_idx..last_offset_idx
RECURSIVE implicit_remove_swap_loop(_, _, _)
implicit_remove_swap_loop(v, cursor, last_offset_idx) ==
    IF cursor >= last_offset_idx THEN v
    ELSE implicit_remove_swap_loop(
             [v EXCEPT !.buffer = implicit_swap(v.buffer,
                 cursor * Len(v.offsets) + it_masked_tail(implicit_tier(v, cursor)),
                 (cursor + 1) * Len(v.offsets) + it_masked_head(implicit_tier(v, cursor + 1)))],
             cursor + 1, last_offset_idx)

\* remove after the swap loop returned s
implicit_remove_swapped(s, oi, last_offset_idx) ==
    [s EXCEPT !.offsets[oi + 1].tail = WAdd(@, 1),
              !.offsets[last_offset_idx + 1].head = WAdd(@, 1)]

\* the Ok arm of remove's match, v holding the target tier after the removal
implicit_remove_cascade(v, oi, last_offset_idx) ==
    IF oi = last_offset_idx THEN v
    ELSE implicit_remove_swapped(implicit_remove_swap_loop(v, oi, last_offset_idx),
                                 oi, last_offset_idx)

\* remove after ImplicitTier::remove(target_tier, target_ring_offsets, rank)
\* returned r: the match
implicit_remove_shifted(v, oi, num_entries, r) ==
    IF r.res[1] = "TierEmptyError" THEN [v |-> v, res |-> <<"TieredVectorEmptyError">>]
    ELSE IF r.res[1] = "TierRankOutOfBoundsError"
    THEN [v |-> v, res |-> <<"TieredVectorRankOutOfBoundsError", r.res[2]>>]
    ELSE [v |-> implicit_remove_cascade(implicit_store(v, oi, r.t), oi,
                                        implicit_tier_idx(v, WSub(num_entries, 1))),
          res |-> <<"Ok", r.res[2]>>]

\* remove after try_contract returned k, with oi == tier_idx(rank)
implicit_remove_contracted(k, oi, num_entries, rank) ==
    IF k.panic \/ oi >= Len(k.v.offsets) \/ (oi + 1) * Len(k.v.offsets) > Len(k.v.buffer)
    THEN [v |-> k.v, res |-> <<"panic">>]
    ELSE implicit_remove_shifted(k.v, oi, num_entries, it_remove(implicit_tier(k.v, oi), rank))

implicit_remove_checked(k, num_entries, rank) ==
    implicit_remove_contracted(k, implicit_tier_idx(k.v, rank), num_entries, rank)

implicit_remove(v, rank) ==
    IF rank > implicit_len(v)
    THEN [v |-> v, res |-> <<"TieredVectorRankOutOfBoundsError", rank>>]
    ELSE implicit_remove_checked(implicit_try_contract(v, implicit_len(v)),
                                 implicit_len(v), rank)

\* ------------------------------------------------------------------------
\* Tier of src/src/linked/tier.rs: { head, tail, elements }, the tier whose
\* calls assert their preconditions.  A tier value is [head, tail, elements,
\* vcap], vcap the capacity of the Vec behind elements.  Results are
\* [t |-> the tier afterwards, elem |-> ..., panic |-> an assert fired].
\* take_element is assume_init_read: the slot keeps its bits.
\* ------------------------------------------------------------------------
lt_new(cap) ==
    [head |-> 0, tail |-> 0, elements |-> UninitBuffer(cap), vcap |-> cap]

lt_len(t) == WSub(t.tail, t.head)

lt_mask(t, val) == BitAnd(val, Len(t.elements) - 1)

lt_is_full(t) == lt_len(t) = Len(t.elements)

lt_masked_head(t) == lt_mask(t, t.head)

lt_masked_tail(t) == lt_mask(t, t.tail)

lt_masked_rank(t, rank) == lt_mask(t, WAdd(t.head, rank))

lt_contains_masked_rank(t, mr) ==
    IF lt_is_full(t) THEN TRUE
    ELSE IF lt_masked_head(t) <= lt_masked_tail(t)
         THEN mr >= lt_masked_head(t) /\ mr < lt_masked_tail(t)
         ELSE mr >= lt_masked_head(t) \/ mr < lt_masked_tail(t)

lt_get(t, idx) == IF ~lt_contains_masked_rank(t, idx) THEN <<>> ELSE <<t.elements[idx + 1]>>

lt_get_by_rank(t, rank) == lt_get(t, lt_masked_rank(t, rank))

lt_rotate_reset(t) ==
    [t EXCEPT !.tail = lt_len(t),
              !.elements = rotate_left(t.elements, lt_masked_head(t)),
              !.head = 0]

lt_push_front(t, elem) ==
    IF lt_is_full(t) THEN [t |-> t, elem |-> <<>>, panic |-> TRUE]
    ELSE [t |-> [t EXCEPT !.head = WSub(t.head, 1),
                          !.elements[lt_mask(t, WSub(t.head, 1)) + 1] = elem],
          elem |-> <<>>, panic |-> FALSE]

lt_push_back(t, elem) ==
    IF lt_is_full(t) THEN [t |-> t, elem |-> <<>>, panic |-> TRUE]
    ELSE [t |-> [t EXCEPT !.tail = WAdd(t.tail, 1), !.elements[lt_masked_tail(t) + 1] = elem],
          elem |-> <<>>, panic |-> FALSE]

lt_pop_front(t) ==
    IF t.head = t.tail THEN [t |-> t, elem |-> <<>>, panic |-> TRUE]
    ELSE [t |-> [t EXCEPT !.head = WAdd(t.head, 1)],
          elem |-> <<t.elements[lt_masked_head(t) + 1]>>, panic |-> FALSE]

lt_pop_back(t) ==
    IF t.head = t.tail THEN [t |-> t, elem |-> <<>>, panic |-> TRUE]
    ELSE [t |-> [t EXCEPT !.tail = WSub(t.tail, 1)],
          elem |-> <<t.elements[lt_mask(t, WSub(t.tail, 1)) + 1]>>, panic |-> FALSE]

\* the loop of merge, for _ in 0..other.len(); p is the result of
\* other.pop_front(), q of the push_back that follows
RECURSIVE lt_merge_loop(_, _, _)
lt_merge_pushed(q, other, n) ==
    IF q.panic THEN [t |-> q.t, panic |-> TRUE] ELSE lt_merge_loop(q.t, other, n - 1)

lt_merge_popped(self, p, n) ==
    IF p.panic THEN [t |-> self, panic |-> TRUE]
    ELSE lt_merge_pushed(lt_push_back(self, p.elem[1]), p.t, n)

lt_merge_loop(self, other, n) ==
    IF n = 0 THEN [t |-> self, panic |-> FALSE]
    ELSE lt_merge_popped(self, lt_pop_front(other), n)

lt_merge(self, other) ==
    lt_merge_loop(
        [self EXCEPT
            !.elements = @ \o UninitBuffer(reserve_exact(Len(@), self.vcap, Len(other.elements))
                                           - Len(@)),
            !.vcap = reserve_exact(Len(self.elements), @, Len(other.elements))],
        other, lt_len(other))

\* split_half after rotate_reset returned r
lt_split_half_rotated(r) ==
    [t |-> [r EXCEPT !.elements = SubSeq(r.elements, 1, Len(r.elements) \div 2),
                     !.tail = saturating_sub(lt_len(r),
                                  saturating_sub(lt_len(r), Len(r.elements) \div 2))],
     half |-> [head |-> 0,
               tail |-> saturating_sub(lt_len(r), Len(r.elements) \div 2),
               elements |-> SubSeq(r.elements, Len(r.elements) \div 2 + 1, Len(r.elements)),
               vcap |-> Len(r.elements) - Len(r.elements) \div 2]]

\* split_half: [t |-> self afterwards, half |-> the returned tier]
\* split_half without the rotate_reset
lt_split_half_unrotated(self) == lt_split_half_rotated(self)

lt_split_half(self) == lt_split_half_rotated(lt_rotate_reset(self))

\* the loop of clone: i walks from head to tail with `i += 1`, which
\* overflows at 2^w - 1: a panic in a build with overflow checks, a wrap to
\* 0 in a build without
RECURSIVE lt_clone_loop(_, _, _, _)
lt_clone_loop(self, buffer, i, overflow_checks) ==
    IF i = self.tail
    THEN [t |-> [head |-> self.head, tail |-> self.tail, elements |-> buffer,
                 vcap |-> self.vcap],
          panic |-> FALSE]
    ELSE IF lt_get(self, lt_mask(self, i)) = <<>> \/ (i = UsizeMod - 1 /\ overflow_checks)
    THEN [t |-> self, panic |-> TRUE]
    ELSE lt_clone_loop(self,
                       [buffer EXCEPT ![lt_mask(self, i) + 1] = self.elements[lt_mask(self, i) + 1]],
                       WAdd(i, 1), overflow_checks)

lt_clone(self, overflow_checks) ==
    lt_clone_loop(self, UninitBuffer(self.vcap), self.head, overflow_checks)

\* the values in the live window of t, by rank
lt_live_values(t) == [i \in 1..lt_len(t) |-> t.elements[lt_masked_rank(t, i - 1) + 1]]

\* ------------------------------------------------------------------------
\* State machine of a LinkedTieredVec and its caller.
\*   tiers  the vector (its only field)
\*   ref    the reference list: a plain sequence that receives every insert
\*          and remove that returned Ok, at the same rank
\*   hist   what the caller did so far: the tier size it constructed the
\*          vector with, the number of inserts / removes that returned Ok,
\*          and whether every call so far was an insert at the current end
\*   last   the last call: its operation, rank, element (inserted, or
\*          returned by remove), result tag, and len() / tier_size() before
\* The k-th successful insert stores the value k, so elements are distinct.
\* A call that panics ends the run.
\* ------------------------------------------------------------------------
\* The flat vector has its own caller: fvec is the FlatTieredVec, fref its
\* reference list, fpanic whether an assert fired in a call, fnew the tier
\* capacity the vector was constructed with.
\* The implicit vector has its own caller: ivec is the ImplicitTieredVec,
\* ilast the last call on it: its operation, rank, result, what
\* get_by_rank read at the ranks 0..len-1 before the call, and the number of
\* inserts and removes called so far.
\* The tier of src/src/linked/tier.rs has its own caller: ltier is the tier,
\* ltlast the last call on it: its operation, whether it panicked, the tier
\* before the call, the tier the call took or returned, and the number of
\* calls so far.
VARIABLES tiers, ref, hist, last, fvec, fref, fpanic, fnew, tier, tref, tlast, ivec, ilast,
          ltier, ltlast

linked_vars == <<tiers, ref, hist, last>>

flat_vars == <<fvec, fref, fpanic, fnew>>

tier_vars == <<tier, tref, tlast>>

implicit_vars == <<ivec, ilast>>

linked_tier_vars == <<ltier, ltlast>>

vars == <<tiers, ref, hist, last, fvec, fref, fpanic, fnew, tier, tref, tlast, ivec, ilast,
          ltier, ltlast>>

MaxInserts == 4

MaxRemoves == 2

MaxAppends == 17

MaxMinCapacity == 16

MaxScenarioAppends == 33

MaxScenarioRemoves == 2

MaxFlatInserts == 6

MaxTierCalls == 7

MaxTierOpCalls == 4

MaxTierCapacity == 8

MaxNewArg == 16

MaxMinArg == 520

MaxImplicitAppends == 12

MaxImplicitRemoves == 2
MaxRegrowInserts == 6
MaxRegrowRemoves == 1

FlatTierSizes == {2, 4}

InitTierSizes == {2, 4}

ScenarioTierSizes == {8, 16}

TierCapacities == {2, 4}

ImplicitTierSizes == {2, 4}

\* no tier, for the tier of src/src/linked/tier.rs
NoLinkedTier == [head |-> 0, tail |-> 0, elements |-> <<>>, vcap |-> 0]

\* Tier::new(cap) of src/src/linked/tier.rs, nothing pushed yet
LinkedTierConstructed(cap) ==
    /\ ltier = lt_new(cap)
    /\ ltlast = [op |-> "new", res |-> "Ok", pre |-> lt_new(cap), other |-> NoLinkedTier,
                 calls |-> 0]

\* ImplicitTieredVec::new(n), nothing inserted yet
ImplicitConstructed(n) ==
    /\ ivec = ImplicitTieredVec_new(n)
    /\ ilast = [op |-> "new", rank |-> 0, res |-> <<"Ok">>, pre |-> <<>>,
                inserts |-> 0, removes |-> 0]

FlatConstructed(cap) ==
    /\ fvec = FlatTieredVec_new(cap)
    /\ fref = <<>>
    /\ fpanic = FALSE
    /\ fnew = cap

\* no tier: what the caller holds besides the lone tier when the last call
\* neither took nor returned a tier
NoTier == [buffer |-> <<>>, head |-> 0, tail |-> 0, vcap |-> 0]

\* a lone tier: Tier::new(cap), nothing pushed yet
TierConstructed(cap) ==
    /\ tier = RawTier_new(cap)
    /\ tref = <<>>
    /\ tlast = [op |-> "new", rank |-> 0, elem |-> 0, res |-> <<"Ok">>,
                pre |-> RawTier_new(cap), calls |-> 0, stored |-> {}, returned |-> <<>>,
                other |-> NoTier]

LinkedConstructed(ts) ==
    /\ tiers = ts
    /\ ref = <<>>
    /\ hist = [init_tier_size |-> Len(ts), append_only |-> TRUE, front_only |-> TRUE,
               in_range |-> TRUE, ok_inserts |-> 0, ok_removes |-> 0,
               prev_resize |-> "none"]
    /\ last = [op |-> "new", rank |-> 0, elem |-> 0, res |-> "Ok",
               pre_len |-> 0, pre_tier_size |-> Len(ts)]

Constructed(ts) ==
    /\ FlatConstructed(2)
    /\ TierConstructed(2)
    /\ ImplicitConstructed(2)
    /\ LinkedTierConstructed(2)
    /\ LinkedConstructed(ts)

Init ==
    \/ \E n \in InitTierSizes : Constructed(LinkedTieredVec_new(n))
    \/ \E m \in 4..MaxMinCapacity : Constructed(with_minimum_capacity(m))

ScenarioInit == \E n \in ScenarioTierSizes : Constructed(LinkedTieredVec_new(n))


\* which way a call resized the vector, from its tier size before and after
resize_direction(before, after) ==
    IF after > before THEN "expand" ELSE IF after < before THEN "contract" ELSE "none"

\* the last call was a mutating one: it returned Ok or it resized
last_mutated == last.res = "Ok" \/ tier_size(tiers) # last.pre_tier_size

\* the caller's bookkeeping after insert(rank, elem) returned r
InsertReturn(rank, elem, r) ==
    /\ tiers' = r.tiers
    /\ ref' = IF r.res[1] = "Ok" THEN vec_insert(ref, rank, elem) ELSE ref
    /\ hist' = [hist EXCEPT !.ok_inserts = IF r.res[1] = "Ok" THEN @ + 1 ELSE @,
                            !.append_only = @ /\ r.res[1] = "Ok" /\ rank = vec_len(tiers),
                            !.front_only = @ /\ r.res[1] = "Ok" /\ rank = 0,
                            !.in_range = @ /\ rank <= vec_len(tiers),
                            !.prev_resize =
                                IF last_mutated
                                THEN resize_direction(last.pre_tier_size, tier_size(tiers))
                                ELSE @]
    /\ last' = [op |-> "insert", rank |-> rank, elem |-> elem, res |-> r.res[1],
                pre_len |-> vec_len(tiers), pre_tier_size |-> tier_size(tiers)]

InsertCall(rank) ==
    /\ last.res # "panic"
    /\ InsertReturn(rank, hist.ok_inserts + 1, insert(tiers, rank, hist.ok_inserts + 1))
    /\ UNCHANGED <<flat_vars, tier_vars, implicit_vars, linked_tier_vars>>


\* the caller's bookkeeping after remove(rank) returned r
RemoveReturn(rank, r) ==
    /\ tiers' = r.tiers
    /\ ref' = IF r.res[1] = "Ok" /\ rank < Len(ref) THEN vec_remove(ref, rank) ELSE ref
    /\ hist' = [hist EXCEPT !.ok_removes = IF r.res[1] = "Ok" THEN @ + 1 ELSE @,
                            !.append_only = FALSE,
                            !.front_only = FALSE,
                            !.in_range = @ /\ rank < vec_len(tiers),
                            !.prev_resize =
                                IF last_mutated
                                THEN resize_direction(last.pre_tier_size, tier_size(tiers))
                                ELSE @]
    /\ last' = [op |-> "remove", rank |-> rank,
                elem |-> IF r.res[1] = "Ok" THEN r.res[2] ELSE 0,
                res |-> r.res[1],
                pre_len |-> vec_len(tiers), pre_tier_size |-> tier_size(tiers)]

RemoveCall(rank) ==
    /\ last.res # "panic"
    /\ RemoveReturn(rank, remove(tiers, rank))
    /\ UNCHANGED <<flat_vars, tier_vars, implicit_vars, linked_tier_vars>>

\* Any interleaving of inserts and removes, at the ranks in range and one
\* past the range; beyond MaxInserts a run may only go on filling a vector
\* at its end, or insert into a vector that is at its capacity.
InsertStep ==
    \E rank \in 0..(vec_len(tiers) + 1) :
        /\ \/ hist.ok_inserts < MaxInserts
           \/ hist.append_only /\ rank = vec_len(tiers) /\ hist.ok_inserts < MaxAppends
           \/ vec_len(tiers) = capacity(tiers) /\ hist.ok_inserts < MaxAppends
        /\ InsertCall(rank)

RemoveStep ==
    \E rank \in 0..(vec_len(tiers) + 1) :
        hist.ok_removes < MaxRemoves /\ RemoveCall(rank)

Next == InsertStep \/ RemoveStep

Spec == Init /\ [][Next]_vars

\* The contraction scenario: fill a fresh, larger vector at its end, then
\* remove a few elements (the first at any rank, the next ones at the
\* front, the middle or the back).
AppendStep ==
    /\ hist.append_only
    /\ hist.ok_inserts < MaxScenarioAppends
    /\ InsertCall(vec_len(tiers))

ScenarioRanks(n) ==
    IF hist.ok_removes = 0 THEN 0..(n - 1)
    ELSE {0, n \div 2, n - 1} \cap 0..(n - 1)

ScenarioRemoveStep ==
    \E rank \in ScenarioRanks(vec_len(tiers)) :
        hist.ok_removes < MaxScenarioRemoves /\ RemoveCall(rank)

ScenarioNext == AppendStep \/ ScenarioRemoveStep

SpecScenario == ScenarioInit /\ [][ScenarioNext]_vars

\* The flat vector under inserts only: the k-th insert stores the value k
\* at any index <= len.
FlatInit ==
    \E cap \in FlatTierSizes :
        /\ FlatConstructed(cap)
        /\ TierConstructed(2)
        /\ ImplicitConstructed(2)
        /\ LinkedTierConstructed(2)
        /\ LinkedConstructed(LinkedTieredVec_new(2))


\* the caller's bookkeeping after insert(index, elem) returned r
FlatInsertReturn(index, elem, r) ==
    /\ fvec' = r.v
    /\ fpanic' = r.panic
    /\ fref' = vec_insert(fref, index, elem)

FlatInsert ==
    \E index \in 0..fvec.len :
        /\ ~fpanic
        /\ Len(fref) < MaxFlatInserts
        /\ FlatInsertReturn(index, Len(fref) + 1, flat_insert(fvec, index, Len(fref) + 1))
        /\ UNCHANGED <<fnew, linked_vars, tier_vars, implicit_vars, linked_tier_vars>>

FlatNext == FlatInsert

SpecFlat == FlatInit /\ [][FlatNext]_vars

\* The constructors: the argument is drawn first, then the call is made.
NewInit ==
    /\ FlatConstructed(2)
    /\ TierConstructed(2)
    /\ ImplicitConstructed(2)
    /\ LinkedTierConstructed(2)
    /\ tiers = <<>>
    /\ ref = <<>>
    /\ hist = [init_tier_size |-> 0, append_only |-> TRUE, front_only |-> TRUE,
               in_range |-> TRUE, ok_inserts |-> 0, ok_removes |-> 0,
               prev_resize |-> "none"]
    /\ \/ \E n \in 0..MaxNewArg : last = [op |-> "new", arg |-> n, res |-> "pending"]
       \/ \E m \in 0..MaxMinArg :
              last = [op |-> "with_minimum_capacity", arg |-> m, res |-> "pending"]

\* the constructor returned ts, or panicked
ConstructorReturn(panics, ts) ==
    /\ tiers' = IF panics THEN tiers ELSE ts
    /\ last' = [last EXCEPT !.res = IF panics THEN "panic" ELSE "Ok"]
    /\ UNCHANGED <<ref, hist, flat_vars, tier_vars, implicit_vars, linked_tier_vars>>

NewCall ==
    /\ last.op = "new" /\ last.res = "pending"
    /\ ConstructorReturn(~new_asserts(last.arg), LinkedTieredVec_new(last.arg))

WithMinimumCapacityCall ==
    /\ last.op = "with_minimum_capacity" /\ last.res = "pending"
    /\ \E overflow_checks \in BOOLEAN :
           ConstructorReturn(with_minimum_capacity_panics(last.arg, overflow_checks),
                             with_minimum_capacity(last.arg))

NewNext == NewCall \/ WithMinimumCapacityCall

SpecNew == NewInit /\ [][NewNext]_vars

\* A lone tier under its end operations: the k-th call carries the value
\* k if it is a push; failed calls count as calls.
TierInit ==
    \E cap \in TierCapacities :
        /\ TierConstructed(cap)
        /\ FlatConstructed(2)
        /\ ImplicitConstructed(2)
        /\ LinkedTierConstructed(2)
        /\ LinkedConstructed(LinkedTieredVec_new(2))

\* the caller's bookkeeping after the tier call op(rank, elem) returned r;
\* seq is the content the caller expects after a successful call.  The
\* record keeps the values the tier accepted and the values it handed back.
TierReturn(op, rank, elem, r, seq) ==
    /\ tlast.op # "drop"
    /\ tlast.res[1] # "panic"
    /\ tier' = r.t
    /\ tref' = IF r.res[1] = "Ok" THEN seq ELSE tref
    /\ tlast' = [op |-> op, rank |-> rank, elem |-> elem, res |-> r.res, pre |-> tier,
                 calls |-> tlast.calls + 1,
                 stored |-> IF r.res[1] = "Ok" /\ elem # 0
                            THEN tlast.stored \cup {elem} ELSE tlast.stored,
                 returned |-> IF r.res[1] = "Ok" /\ elem = 0
                              THEN Append(tlast.returned, r.res[2]) ELSE tlast.returned,
                 other |-> NoTier]
    /\ UNCHANGED <<linked_vars, flat_vars, implicit_vars, linked_tier_vars>>

TierPushFront ==
    /\ tlast.calls < MaxTierCalls
    /\ TierReturn("push_front", 0, tlast.calls + 1, push_front(tier, tlast.calls + 1),
                  <<tlast.calls + 1>> \o tref)

TierPushBack ==
    /\ tlast.calls < MaxTierCalls
    /\ TierReturn("push_back", Len(tref), tlast.calls + 1, push_back(tier, tlast.calls + 1),
                  Append(tref, tlast.calls + 1))

TierPopFront ==
    /\ tlast.calls < MaxTierCalls
    /\ TierReturn("pop_front", 0, 0, pop_front(tier), SubSeq(tref, 2, Len(tref)))

TierPopBack ==
    /\ tlast.calls < MaxTierCalls
    /\ TierReturn("pop_back", Len(tref) - 1, 0, pop_back(tier), SubSeq(tref, 1, Len(tref) - 1))

TierNext == TierPushFront \/ TierPushBack \/ TierPopFront \/ TierPopBack

SpecTier == TierInit /\ [][TierNext]_vars

\* A lone tier under its end operations, insert and remove at any rank of
\* the window and one past it, rotate_reset, merge, split_half and drop.
TierInsert ==
    \E rank \in 0..tier_len(tier) :
        /\ tlast.calls < MaxTierOpCalls
        /\ TierReturn("insert", rank, tlast.calls + 1, tier_insert(tier, rank, tlast.calls + 1),
                      vec_insert(tref, rank, tlast.calls + 1))

\* insert at a rank beyond len, up to one lap of the ring further: the
\* caller expects the call to fail, and takes the element for the last one
\* if it returns Ok
TierInsertBeyond ==
    \E rank \in (tier_len(tier) + 1)..(tier_len(tier) + tier_capacity(tier)) :
        /\ tlast.calls < MaxTierOpCalls
        /\ TierReturn("insert", rank, tlast.calls + 1, tier_insert(tier, rank, tlast.calls + 1),
                      Append(tref, tlast.calls + 1))

TierRemove ==
    \E rank \in 0..tier_len(tier) :
        /\ tlast.calls < MaxTierOpCalls
        /\ TierReturn("remove", rank, 0, tier_remove(tier, rank), vec_remove(tref, rank))

TierRotateReset ==
    /\ tlast.calls < MaxTierOpCalls
    /\ tlast.op # "drop"
    /\ tlast.res[1] # "panic"
    /\ tier' = rotate_reset(tier)
    /\ tlast' = [tlast EXCEPT !.op = "rotate_reset", !.rank = 0, !.elem = 0,
                              !.res = <<"Ok">>, !.pre = tier, !.calls = @ + 1,
                              !.other = NoTier]
    /\ UNCHANGED <<tref, linked_vars, flat_vars, implicit_vars, linked_tier_vars>>

\* the values in the live window of t, by rank
live_values(t) == [i \in 1..tier_len(t) |-> t.buffer[masked_rank(t, i - 1) + 1]]

\* a fresh tier of capacity cap holding the n new values base + 1 .. base + n
RECURSIVE filled_tier(_, _, _)
filled_tier(cap, base, n) ==
    IF n = 0 THEN RawTier_new(cap)
    ELSE push_back(filled_tier(cap, base, n - 1), base + n).t

\* a fresh tier of capacity cap holding the n new values base + 1 .. base + n,
\* the last f of them pushed at the front: its head is f slots below zero
RECURSIVE fronted_tier(_, _, _, _)
fronted_tier(cap, base, n, f) ==
    IF f = 0 THEN filled_tier(cap, base, n)
    ELSE push_front(fronted_tier(cap, base, n - 1, f - 1), base + n).t

\* merge(other) returned: the tier took over the values of other
TierMergeReturn(other, r) ==
    /\ tlast.res[1] # "panic"
    /\ tier' = r.t
    /\ tref' = tref \o live_values(other)
    /\ tlast' = [tlast EXCEPT !.op = "merge", !.rank = 0, !.elem = 0,
                              !.res = <<IF r.panic THEN "panic" ELSE "Ok">>,
                              !.pre = tier, !.calls = @ + 1,
                              !.stored = @ \cup {live_values(other)[k] : k \in 1..tier_len(other)},
                              !.other = other]
    /\ UNCHANGED <<linked_vars, flat_vars, implicit_vars, linked_tier_vars>>

\* merge(other) with the tier `other`
TierMergeWith(other) == TierMergeReturn(other, merge(tier, other))

\* merge with another tier of the same capacity holding n new values, f of
\* them pushed at its front
TierMerge ==
    \E n \in 0..tier_capacity(tier) : \E f \in 0..n :
        /\ tlast.calls < MaxTierOpCalls
        /\ tlast.op # "drop"
        /\ 2 * tier_capacity(tier) <= MaxTierCapacity
        /\ TierMergeWith(fronted_tier(tier_capacity(tier), 10 * (tlast.calls + 1), n, f))

\* split_half returned r: the caller owns the values of the returned half
TierSplitHalfReturn(r) ==
    /\ tlast.res[1] # "panic"
    /\ tier' = r.t
    /\ tref' = SubSeq(tref, 1, Len(tref) - tier_len(r.half))
    /\ tlast' = [tlast EXCEPT !.op = "split_half", !.rank = 0, !.elem = 0,
                              !.res = <<"Ok">>, !.pre = tier, !.calls = @ + 1,
                              !.returned = @ \o live_values(r.half),
                              !.other = r.half]
    /\ UNCHANGED <<linked_vars, flat_vars, implicit_vars, linked_tier_vars>>

TierSplitHalf ==
    /\ tlast.calls < MaxTierOpCalls
    /\ tlast.op # "drop"
    /\ tier_capacity(tier) >= 4
    /\ TierSplitHalfReturn(split_half(tier))

\* clone returned c, or panicked: the tier is as it was, the caller holds
\* the clone
TierCloneReturn(c) ==
    /\ tlast.res[1] # "panic"
    /\ tlast' = [tlast EXCEPT !.op = "clone", !.rank = 0, !.elem = 0,
                              !.res = <<IF c.panic THEN "panic" ELSE "Ok">>,
                              !.pre = tier, !.calls = @ + 1,
                              !.other = IF c.panic THEN NoTier ELSE c.t]
    /\ UNCHANGED <<tier, tref, linked_vars, flat_vars, implicit_vars, linked_tier_vars>>

\* clone, in a build with or without overflow checks
TierClone ==
    /\ tlast.calls < MaxTierOpCalls
    /\ tlast.op # "drop"
    /\ \E overflow_checks \in BOOLEAN : TierCloneReturn(tier_clone(tier, overflow_checks))

\* the tier goes out of scope: res carries the slots that were finalized
TierDrop ==
    /\ tlast.op # "drop"
    /\ tlast' = [tlast EXCEPT !.op = "drop", !.rank = 0, !.elem = 0,
                              !.res = <<"Ok", tier_drop(tier)>>, !.pre = tier,
                              !.other = NoTier]
    /\ UNCHANGED <<tier, tref, linked_vars, flat_vars, implicit_vars, linked_tier_vars>>

TierEndOp ==
    /\ tlast.calls < MaxTierOpCalls
    /\ TierPushFront \/ TierPushBack \/ TierPopFront \/ TierPopBack

TierOpsNext ==
    \/ TierEndOp
    \/ TierInsert
    \/ TierInsertBeyond
    \/ TierRemove
    \/ TierRotateReset
    \/ TierMerge
    \/ TierSplitHalf
    \/ TierClone
    \/ TierDrop

SpecTierOps == TierInit /\ [][TierOpsNext]_vars

\* the sequence a caller reads with get(0) .. get(len() - 1)
FlatObserved == [i \in 1..fvec.len |-> flat_get(fvec, i - 1)]

\* the sequence a caller reads from the vector ts with get_by_rank(0) ..
\* get_by_rank(len() - 1)
observe(ts) == [i \in 1..vec_len(ts) |-> get_by_rank(ts, i - 1)]

\* the sequence a caller reads with get_by_rank(0) .. get_by_rank(len() - 1)
Observed == [i \in 1..vec_len(tiers) |-> get_by_rank(tiers, i - 1)]

SomeOf(s) == [i \in 1..Len(s) |-> <<s[i]>>]

RECURSIVE live_count(_, _)
live_count(ts, i) == IF i > Len(ts) THEN 0 ELSE tier_len(ts[i]) + live_count(ts, i + 1)

Completed == last.res # "panic"

\* ------------------------------------------------------------------------
\* Order preservation and length
\* ------------------------------------------------------------------------

\* C1: after any sequence of in-range insert / remove calls the values read
\* by get_by_rank(0) .. get_by_rank(len - 1) are the reference list, in order.
C1_OrderPreserved ==
    (hist.in_range /\ Completed) => Observed = SomeOf(ref)

C4_Packing ==
    Completed =>
        \A i \in 1..(Len(tiers) - 1) :
            tier_len(tiers[i + 1]) > 0 => tier_is_full(tiers[i])

\* C5: square capacity: the number of tiers is a power of two >= 2, every
\* tier's capacity is the number of tiers, capacity() is tier_size() squared.
C5_SquareCapacity ==
    /\ is_power_of_two(Len(tiers)) /\ Len(tiers) >= 2
    /\ \A i \in 1..Len(tiers) : tier_capacity(tiers[i]) = Len(tiers)
    /\ capacity(tiers) = tier_size(tiers) * tier_size(tiers)

\* ------------------------------------------------------------------------
\* Resizing
\* ------------------------------------------------------------------------

\* C6: insert(rank, elem) called with len == capacity() and rank <= len
\* expands first: tier_size() doubles, capacity() quadruples, len() grows by
\* one, is_full() is false, and the stored elements keep their order with
\* elem at rank.
C6_ExpandOnFullInsert ==
    [][(/\ last'.op = "insert"
        /\ vec_len(tiers) = capacity(tiers)
        /\ last'.rank <= vec_len(tiers))
       => (/\ last'.res = "Ok"
           /\ tier_size(tiers') = 2 * tier_size(tiers)
           /\ capacity(tiers') = 4 * capacity(tiers)
           /\ vec_len(tiers') = vec_len(tiers) + 1
           /\ ~is_full(tiers')
           /\ Observed' = vec_insert(Observed, last'.rank, <<last'.elem>>))]_vars

\* C7: an insert that starts with len < capacity() does not resize, the
\* tier size grows only in an insert that starts with len == capacity(),
\* and filling a fresh vector at its end up to capacity() never resizes it,
\* reads back the inserted values in order and ends with is_full().
C7_NoResizeBelowCapacity ==
    /\ (last.op = "insert" /\ last.pre_len < last.pre_tier_size * last.pre_tier_size)
           => tier_size(tiers) = last.pre_tier_size
    /\ tier_size(tiers) > last.pre_tier_size
           => (last.op = "insert"
               /\ last.pre_len = last.pre_tier_size * last.pre_tier_size)
    /\ (hist.append_only
        /\ hist.ok_inserts <= hist.init_tier_size * hist.init_tier_size)
           => /\ tier_size(tiers) = hist.init_tier_size
              /\ Observed = [i \in 1..hist.ok_inserts |-> <<i>>]
              /\ (hist.ok_inserts = hist.init_tier_size * hist.init_tier_size
                      => is_full(tiers))

C7_Witness ==
    /\ hist.append_only
    /\ hist.init_tier_size = 4
    /\ hist.ok_inserts = 16
    /\ last.op = "insert" /\ last.rank = 15
    /\ is_full(tiers)

\* C8: after k inserts at rank 0 into an empty vector, get_by_rank(j) is the
\* (k - j)-th inserted value for every j < k.
C8_InsertAtFront ==
    (hist.front_only /\ Completed) =>
        \A j \in 0..(hist.ok_inserts - 1) :
            get_by_rank(tiers, j) = <<hist.ok_inserts - j>>

\* C9: remove(r), r < len, on a vector with len == capacity() returns Ok with
\* the element that was at rank r, len() drops by one and the remaining
\* elements keep their order.
C9_RemoveFromFull ==
    [][(/\ last'.op = "remove"
        /\ vec_len(tiers) = capacity(tiers)
        /\ last'.rank < vec_len(tiers))
       => (/\ last'.res = "Ok"
           /\ <<last'.elem>> = get_by_rank(tiers, last'.rank)
           /\ vec_len(tiers') = vec_len(tiers) - 1
           /\ Observed' = vec_remove(Observed, last'.rank))]_vars

SingleRemoveAtEighth ==
    /\ last.op = "remove"
    /\ hist.ok_removes <= 1
    /\ hist.init_tier_size = 16 /\ hist.ok_inserts = 32
    /\ last.pre_tier_size = 16 /\ last.pre_len = 32
    /\ last.rank < 32

C2_FlatInsertOrder ==
    /\ ~fpanic
    /\ fvec.len = Len(fref)
    /\ FlatObserved = SomeOf(fref)

C2_Witness ==
    /\ fnew = 2 /\ fvec.tier_capacity = 4
    /\ Len(fref) = 6 /\ fref[2] = 6
    /\ ft_is_full(flat_tier(fvec, 0))
    /\ ft_masked_head(flat_tier(fvec, 1)) # 0

\* ------------------------------------------------------------------------
\* Contraction
\* ------------------------------------------------------------------------

C13_InsertOutOfBounds ==
    /\ Completed =>
           \A rank \in (vec_len(tiers) + 1)..(vec_len(tiers) + 3) :
               \A elem \in {hist.ok_inserts + 1, 99} :
                   insert(tiers, rank, elem) =
                       [tiers |-> tiers,
                        res |-> <<"TieredVectorOutofBoundsInsertionError", rank, elem>>]
    /\ (last.op = "insert" /\ last.rank > last.pre_len) =>
           /\ last.res = "TieredVectorOutofBoundsInsertionError"
           /\ vec_len(tiers) = last.pre_len
           /\ tier_size(tiers) = last.pre_tier_size

C13_Witness ==
    /\ last.op = "insert" /\ last.rank > last.pre_len
    /\ last.res = "TieredVectorOutofBoundsInsertionError"
    /\ vec_len(tiers) = capacity(tiers)
    /\ Observed = SomeOf(ref)

\* C14: remove(rank) with rank >= len on a non-empty vector, rank == len and
\* rank == len == capacity() included, returns
\* TieredVectorRankOutOfBoundsError(rank), does not panic and removes no
\* element.
C14_RemoveOutOfBounds ==
    (Completed /\ vec_len(tiers) > 0) =>
        \A rank \in vec_len(tiers)..(vec_len(tiers) + 2) :
            /\ remove(tiers, rank).res = <<"TieredVectorRankOutOfBoundsError", rank>>
            /\ observe(remove(tiers, rank).tiers) = Observed

\* C15: remove(rank) on a vector with len == 0 returns TieredVectorEmptyError
\* for every rank, and remove on a vector with len > 0 never returns it.
C15_EmptyError ==
    Completed =>
        /\ vec_len(tiers) = 0 =>
               \A rank \in 0..2 : remove(tiers, rank).res = <<"TieredVectorEmptyError">>
        /\ vec_len(tiers) > 0 =>
               \A rank \in 0..(vec_len(tiers) + 2) :
                   remove(tiers, rank).res[1] # "TieredVectorEmptyError"

\* C16: while every call so far had its rank in range (insert with
\* rank <= len, remove with rank < len), every call returned Ok: none
\* panicked and none handed an error to the caller.
C16_NoPanicInRange ==
    hist.in_range => last.res = "Ok"

\* ------------------------------------------------------------------------
\* The lone tier
\* ------------------------------------------------------------------------
\* the sequence read from a tier with get_by_rank(0) .. get_by_rank(len - 1)
tier_observe(t) == [i \in 1..tier_len(t) |-> tier_get_by_rank(t, i - 1)]

\* C17: push_front(elem) and push_back(elem) on a tier with len == capacity
\* return TierFullInsertionError(elem) with the same elem, pop_front() and
\* pop_back() on a tier with len == 0 return TierEmptyError, and in all
\* four cases the tier (head, tail, every slot) is what it was.
C17_FailedEndOpIsNoOp ==
    /\ tier_len(tier) = tier_capacity(tier) =>
           \A elem \in {tlast.calls + 1, 99} :
               /\ push_front(tier, elem) = [t |-> tier, res |-> <<"TierFullInsertionError", elem>>]
               /\ push_back(tier, elem) = [t |-> tier, res |-> <<"TierFullInsertionError", elem>>]
    /\ tier_len(tier) = 0 =>
           /\ pop_front(tier) = [t |-> tier, res |-> <<"TierEmptyError">>]
           /\ pop_back(tier) = [t |-> tier, res |-> <<"TierEmptyError">>]
    /\ tlast.res[1] \in {"TierFullInsertionError", "TierEmptyError"} =>
           /\ tier = tlast.pre
           /\ tier_observe(tier) = SomeOf(tref)
           /\ tlast.op \in {"push_front", "push_back"} =>
                  /\ tlast.res = <<"TierFullInsertionError", tlast.elem>>
                  /\ tier_len(tlast.pre) = tier_capacity(tlast.pre)
           /\ tlast.op \in {"pop_front", "pop_back"} =>
                  /\ tlast.res = <<"TierEmptyError">>
                  /\ tier_len(tlast.pre) = 0

\* a push_back that failed on a full tier whose window is wrapped around
\* the end of the buffer
C17_Witness ==
    /\ tlast.op = "push_back"
    /\ tlast.res[1] = "TierFullInsertionError"
    /\ tier_capacity(tier) = 4
    /\ masked_head(tier) # 0
    /\ tier_observe(tier) = SomeOf(tref)

\* C18: for every rank >= len, ranks >= capacity included, get_by_rank(rank)
\* and contains_rank(rank) report no element; for every rank < len,
\* get_by_rank(rank) is the element at that logical rank.
C18_RankBeyondLen ==
    \A rank \in 0..(2 * tier_capacity(tier) + 1) :
        IF rank >= tier_len(tier)
        THEN tier_get_by_rank(tier, rank) = <<>> /\ ~contains_rank(tier, rank)
        ELSE tier_get_by_rank(tier, rank) = <<tref[rank + 1]>>

\* ------------------------------------------------------------------------
\* The constructors
\* ------------------------------------------------------------------------
\* C19: for every min >= 4, with_minimum_capacity(min) builds an empty
\* vector whose tier size t is the smallest power of two with t*t >= min
\* and whose capacity is t*t; a min below 4 is rejected by assertion.
C19_MinimumCapacity ==
    (last.op = "with_minimum_capacity" /\ last.res # "pending") =>
        IF last.arg < 4 THEN last.res = "panic"
        ELSE /\ last.res = "Ok"
             /\ tier_size(tiers) >= 2
             /\ is_power_of_two(tier_size(tiers))
             /\ tier_size(tiers) * tier_size(tiers) >= last.arg
             /\ (tier_size(tiers) \div 2) * (tier_size(tiers) \div 2) < last.arg
             /\ capacity(tiers) = tier_size(tiers) * tier_size(tiers)
             /\ vec_len(tiers) = 0

\* C20: new(tier_capacity) panics unless tier_capacity is a power of two
\* >= 2; when accepted it yields tier_capacity empty tiers, each of capacity
\* tier_capacity, with len 0, capacity tier_capacity squared, is_empty and
\* not is_full.
C20_New ==
    (last.op = "new" /\ last.res # "pending") =>
        IF \E k \in 1..MaxNewArg : last.arg = Pow2(k)
        THEN /\ last.res = "Ok"
             /\ Len(tiers) = last.arg
             /\ \A i \in 1..Len(tiers) :
                    tier_capacity(tiers[i]) = last.arg /\ tier_len(tiers[i]) = 0
             /\ vec_len(tiers) = 0
             /\ capacity(tiers) = last.arg * last.arg
             /\ is_empty(tiers)
             /\ ~is_full(tiers)
        ELSE last.res = "panic" /\ tiers = <<>>

\* new(16) was accepted and built 256 slots
C20_Witness ==
    /\ last.op = "new" /\ last.arg = 16 /\ last.res = "Ok"
    /\ tier_size(tiers) = 16
    /\ capacity(tiers) = 256

\* C21: from Tier::new(capacity), under any sequence of push_front,
\* push_back, pop_front and pop_back the tier is the reference deque
\* bounded by its capacity: get_by_rank(0..len) is the reference sequence,
\* len, is_empty and is_full agree with it, a pop returns the reference's
\* first / last element, and each of the four calls leaves the tier reading
\* as the reference after the same call.
C21_TierIsDeque ==
    /\ tier_observe(tier) = SomeOf(tref)
    /\ tier_len(tier) = Len(tref)
    /\ tier_is_empty(tier) = (Len(tref) = 0)
    /\ tier_is_full(tier) = (Len(tref) = tier_capacity(tier))
    /\ Len(tref) > 0 =>
           /\ pop_front(tier).res = <<"Ok", tref[1]>>
           /\ tier_observe(pop_front(tier).t) = SomeOf(SubSeq(tref, 2, Len(tref)))
           /\ pop_back(tier).res = <<"Ok", tref[Len(tref)]>>
           /\ tier_observe(pop_back(tier).t) = SomeOf(SubSeq(tref, 1, Len(tref) - 1))
    /\ Len(tref) < tier_capacity(tier) =>
           /\ push_front(tier, 99).res[1] = "Ok"
           /\ tier_observe(push_front(tier, 99).t) = SomeOf(<<99>> \o tref)
           /\ push_back(tier, 99).res[1] = "Ok"
           /\ tier_observe(push_back(tier, 99).t) = SomeOf(Append(tref, 99))

\* a tier of capacity 4 holding three elements whose head cursor went below
\* zero and whose window is wrapped around the end of the buffer, after a
\* pop
C21_Witness ==
    /\ tier_capacity(tier) = 4
    /\ Len(tref) = 3
    /\ tier.head > tier.tail
    /\ masked_head(tier) > masked_tail(tier)
    /\ tlast.op \in {"pop_front", "pop_back"} /\ tlast.res[1] = "Ok"
    /\ tier_observe(tier) = SomeOf(tref)

\* ------------------------------------------------------------------------
\* The lone tier under insert, remove and rotate_reset
\* ------------------------------------------------------------------------
\* C22: after Tier::insert(local_rank, elem) returned Ok on a non-full tier,
\* local_rank <= len: len has grown by one, get_by_rank(local_rank) is
\* elem, the elements below local_rank keep their rank and the elements
\* from local_rank on are one rank higher.
C22_TierInsert ==
    (tlast.op = "insert" /\ tlast.res[1] = "Ok" /\ tlast.rank <= tier_len(tlast.pre)) =>
        /\ tier_len(tier) = tier_len(tlast.pre) + 1
        /\ tier_get_by_rank(tier, tlast.rank) = <<tlast.elem>>
        /\ tier_observe(tier) = vec_insert(tier_observe(tlast.pre), tlast.rank, <<tlast.elem>>)

\* C23: Tier::remove(rank), rank < len, returns the element that was at
\* that rank, len decreases by one, the other elements keep their order
\* with the ranks above the removed one shifted down by one, and no
\* emptied slot stays inside the live window.
C23_TierRemove ==
    (tlast.op = "remove" /\ tlast.rank < tier_len(tlast.pre)) =>
        /\ tlast.res[1] = "Ok"
        /\ <<tlast.res[2]>> = tier_get_by_rank(tlast.pre, tlast.rank)
        /\ tier_len(tier) = tier_len(tlast.pre) - 1
        /\ tier_observe(tier) = vec_remove(tier_observe(tlast.pre), tlast.rank)
        /\ \A r \in 0..(tier_len(tier) - 1) : tier_get_by_rank(tier, r) # <<Uninit>>

\* the physical slots of the live window of t
window_slots(t) == {masked_rank(t, r) : r \in 0..(tier_len(t) - 1)}

\* C24: when a tier is dropped, a completely full tier included, every slot
\* inside the live window is finalized exactly once and no slot outside the
\* window is touched.
C24_DropFinalizesWindow ==
    tlast.op = "drop" =>
        /\ {tlast.res[2][k] : k \in 1..Len(tlast.res[2])} = window_slots(tlast.pre)
        /\ Len(tlast.res[2]) = tier_len(tlast.pre)

\* C30: rotate_reset on any tier state (empty, partial, full, wrapped)
\* leaves head == 0 and tail == len, puts the element of logical rank r in
\* physical slot r for every r < len, and leaves len and the logical
\* sequence as they were.
C30_RotateReset ==
    tlast.op = "rotate_reset" =>
        /\ tier.head = 0
        /\ masked_head(tier) = 0
        /\ tier.tail = tier_len(tlast.pre)
        /\ tier_len(tier) = tier_len(tlast.pre)
        /\ tier_capacity(tier) = tier_capacity(tlast.pre)
        /\ \A r \in 0..(tier_len(tlast.pre) - 1) :
               tier.buffer[r + 1] = tlast.pre.buffer[masked_rank(tlast.pre, r) + 1]
        /\ tier_observe(tier) = tier_observe(tlast.pre)

\* rotate_reset of a tier of capacity 4 that held three elements in a
\* window wrapped around the end of the buffer
C30_Witness ==
    /\ tlast.op = "rotate_reset"
    /\ tier_capacity(tier) = 4
    /\ tier_len(tlast.pre) = 3
    /\ masked_head(tlast.pre) = 3
    /\ tier_observe(tier) = SomeOf(tref)
    /\ tier.buffer # tlast.pre.buffer

\* C29: Tier::insert at an interior rank of a non-full tier shifts towards
\* the logically nearer boundary: the number of existing elements moved is
\* at most min(rank, len - rank) + 1 and never exceeds capacity / 2.
C29_InsertShiftCost ==
    (/\ tlast.op = "insert" /\ tlast.res[1] = "Ok"
     /\ 0 < tlast.rank /\ tlast.rank < tier_len(tlast.pre)) =>
        /\ tier_insert_moved(tlast.pre, tlast.rank) <= tlast.rank + 1
        /\ tier_insert_moved(tlast.pre, tlast.rank) <= tier_len(tlast.pre) - tlast.rank + 1
        /\ tier_insert_moved(tlast.pre, tlast.rank) <= tier_capacity(tlast.pre) \div 2

\* the number of positions of the sequence s that hold v
occurrences(s, v) == Cardinality({k \in 1..Len(s) : s[k] = v})

\* C25: after any sequence of push_front, push_back, pop_front, pop_back,
\* insert, remove, rotate_reset, merge and split_half, every slot of the
\* live window holds a value that was written and not moved out since,
\* every value ever stored is in exactly one live slot or was handed to the
\* caller exactly once, and no moved-out slot was read for the caller.
C25_SlotLiveness ==
    tlast.op # "drop" =>
        /\ \A r \in 1..tier_len(tier) : live_values(tier)[r] # Uninit
        /\ \A k \in 1..Len(tlast.returned) : tlast.returned[k] # Uninit
        /\ \A v \in tlast.stored :
               occurrences(live_values(tier), v) + occurrences(tlast.returned, v) = 1

\* ------------------------------------------------------------------------
\* The cascade of insert
\* ------------------------------------------------------------------------
\* the elements of all tiers, tier after tier, each in its rank order
RECURSIVE concat_tiers(_)
concat_tiers(ts) ==
    IF ts = <<>> THEN <<>> ELSE live_values(ts[1]) \o concat_tiers(Tail(ts))

\* what the pop-push phase of insert, started at the full tier ti of ts and
\* ended as c, is to have done
cascade_as_specified(ts, ti, c) ==
    /\ ~c.panic
    /\ tier_len(c.tiers[ti + 1]) = tier_capacity(ts[ti + 1]) - 1
    /\ live_values(c.tiers[ti + 1]) = SubSeq(live_values(ts[ti + 1]), 1, tier_len(ts[ti + 1]) - 1)
    /\ concat_tiers(c.tiers) = concat_tiers(ts)

\* C26: when insert targets a full tier ti (of a vector that is not full),
\* the cascade moves the back element of each full tier from ti on to the
\* front of the next tier: tiers[ti] is left with exactly one free slot,
\* having lost its back element, and the concatenated order of all elements
\* is unchanged.
C26_InsertCascade ==
    (Completed /\ ~is_full(tiers)) =>
        \A ti \in 0..(tier_size(tiers) - 1) :
            tier_is_full(tiers[ti + 1]) =>
                cascade_as_specified(tiers, ti, insert_pop_push(tiers, ti, <<>>))

\* ------------------------------------------------------------------------
\* Resizing
\* ------------------------------------------------------------------------
\* C28: two consecutive mutating calls never resize in opposite directions:
\* an insert that expanded is not followed at once by a remove that
\* contracts, and a remove that contracted is not followed at once by an
\* insert that expands.
C28_ResizeHysteresis ==
    last_mutated =>
        /\ ~(/\ hist.prev_resize = "expand"
             /\ resize_direction(last.pre_tier_size, tier_size(tiers)) = "contract")
        /\ ~(/\ hist.prev_resize = "contract"
             /\ resize_direction(last.pre_tier_size, tier_size(tiers)) = "expand")

\* a remove that returned Ok right after an insert that expanded
C28_Witness ==
    /\ hist.prev_resize = "expand"
    /\ last.op = "remove" /\ last.res = "Ok"
    /\ tier_size(tiers) = last.pre_tier_size

\* an insert that returned Ok right after a remove that contracted
C28_WitnessContracted ==
    /\ hist.prev_resize = "contract"
    /\ last.op = "insert" /\ last.res = "Ok"
    /\ tier_size(tiers) = last.pre_tier_size

\* ------------------------------------------------------------------------
\* State machine of an ImplicitTieredVec and its caller: the vector is
\* filled at its end, the k-th insert storing the value k, and elements are
\* removed at any rank up to len.  A call that panics ends the run.
\* ------------------------------------------------------------------------
\* what get_by_rank reads at the ranks 0..len-1
implicit_observe(v) == [i \in 1..implicit_len(v) |-> implicit_get_by_rank(v, i - 1)]

ImplicitInit ==
    \E n \in ImplicitTierSizes :
        /\ ImplicitConstructed(n)
        /\ LinkedTierConstructed(2)
        /\ FlatConstructed(2)
        /\ TierConstructed(2)
        /\ LinkedConstructed(LinkedTieredVec_new(2))

\* the caller's bookkeeping after the call op(rank) returned r
ImplicitReturn(op, rank, r) ==
    /\ ilast.res[1] # "panic"
    /\ ivec' = r.v
    /\ ilast' = [op |-> op, rank |-> rank, res |-> r.res, pre |-> implicit_observe(ivec),
                 inserts |-> IF op = "insert" THEN ilast.inserts + 1 ELSE ilast.inserts,
                 removes |-> IF op = "remove" THEN ilast.removes + 1 ELSE ilast.removes]
    /\ UNCHANGED <<linked_vars, flat_vars, tier_vars, linked_tier_vars>>

ImplicitAppend ==
    /\ ilast.inserts < MaxImplicitAppends
    /\ ImplicitReturn("insert", implicit_len(ivec),
                      implicit_insert(ivec, implicit_len(ivec), ilast.inserts + 1))

ImplicitRemove ==
    \E rank \in 0..implicit_len(ivec) :
        /\ ilast.removes < MaxImplicitRemoves
        /\ ImplicitReturn("remove", rank, implicit_remove(ivec, rank))

ImplicitNext == ImplicitAppend \/ ImplicitRemove

SpecImplicit == ImplicitInit /\ [][ImplicitNext]_vars

\* the tier of the removed rank and the last active tier before the last
\* call, counted in the tier size the call left
implicit_target_tier == ilast.rank \div Len(ivec.offsets)

implicit_last_tier == (Len(ilast.pre) - 1) \div Len(ivec.offsets)

\* C27: after ImplicitTieredVec::remove(rank) with rank < len whose target
\* tier and last active tier are two or more tiers apart, every tier between
\* them is full and get_by_rank reads, at the ranks 0..len-1, what it read
\* before the call with the element at rank removed.
C27_RemoveSwapCascade ==
    (/\ ilast.op = "remove"
     /\ ilast.rank < Len(ilast.pre)
     /\ implicit_last_tier >= implicit_target_tier + 2)
    => /\ ilast.res[1] = "Ok"
       /\ \A i \in (implicit_target_tier + 1)..(implicit_last_tier - 1) :
              it_is_full(implicit_tier(ivec, i))
       /\ implicit_observe(ivec) = vec_remove(ilast.pre, ilast.rank)

\* C31: after a.merge(b) on two tiers of the same capacity C, in whatever
\* state each was (wrapped or not, any lengths), a has capacity 2C and its
\* live window reads what a read before followed by what b read, so its len
\* is the sum of the two lens.
C31_MergeAppends ==
    tlast.op = "merge"
    => /\ tlast.res[1] = "Ok"
       /\ tier_capacity(tier) = 2 * tier_capacity(tlast.pre)
       /\ tier_len(tier) = tier_len(tlast.pre) + tier_len(tlast.other)
       /\ live_values(tier) = live_values(tlast.pre) \o live_values(tlast.other)

\* ------------------------------------------------------------------------
\* State machine of a lone tier of src/src/linked/tier.rs and its caller:
\* push and pop at both ends (the k-th call pushing the value k),
\* rotate_reset, merge with a tier of the same capacity, split_half and
\* clone.  A call whose assert fires ends the run.
\* ------------------------------------------------------------------------
\* the caller's bookkeeping after the call op returned r; other is the tier
\* the call took or returned
LinkedTierReturn(op, r, other) ==
    /\ ltlast.res # "panic"
    /\ ltlast.calls < MaxTierOpCalls
    /\ ltier' = r.t
    /\ ltlast' = [op |-> op, res |-> IF r.panic THEN "panic" ELSE "Ok", pre |-> ltier,
                  other |-> other, calls |-> ltlast.calls + 1]
    /\ UNCHANGED <<linked_vars, flat_vars, tier_vars, implicit_vars>>

LinkedTierPushFront ==
    LinkedTierReturn("push_front", lt_push_front(ltier, ltlast.calls + 1), NoLinkedTier)

LinkedTierPushBack ==
    LinkedTierReturn("push_back", lt_push_back(ltier, ltlast.calls + 1), NoLinkedTier)

LinkedTierPopFront == LinkedTierReturn("pop_front", lt_pop_front(ltier), NoLinkedTier)

LinkedTierPopBack == LinkedTierReturn("pop_back", lt_pop_back(ltier), NoLinkedTier)

LinkedTierRotateReset ==
    LinkedTierReturn("rotate_reset", [t |-> lt_rotate_reset(ltier), panic |-> FALSE],
                     NoLinkedTier)

\* a fresh tier of capacity cap holding the n new values base + 1 .. base + n,
\* the last f of them pushed at the front
RECURSIVE lt_fronted_tier(_, _, _, _)
lt_fronted_tier(cap, base, n, f) ==
    IF n = 0 THEN lt_new(cap)
    ELSE IF f = 0 THEN lt_push_back(lt_fronted_tier(cap, base, n - 1, 0), base + n).t
    ELSE lt_push_front(lt_fronted_tier(cap, base, n - 1, f - 1), base + n).t

\* merge(other) with the tier `other`
LinkedTierMergeWith(other) == LinkedTierReturn("merge", lt_merge(ltier, other), other)

LinkedTierMerge ==
    \E n \in 0..Len(ltier.elements) : \E f \in 0..n :
        /\ 2 * Len(ltier.elements) <= MaxTierCapacity
        /\ LinkedTierMergeWith(lt_fronted_tier(Len(ltier.elements), 10 * (ltlast.calls + 1), n, f))

\* split_half returned sh
LinkedTierSplitHalfReturn(sh) ==
    LinkedTierReturn("split_half", [t |-> sh.t, panic |-> FALSE], sh.half)

LinkedTierSplitHalf ==
    /\ Len(ltier.elements) >= 4
    /\ LinkedTierSplitHalfReturn(lt_split_half(ltier))

\* clone returned c: the tier is as it was, the caller holds the clone
LinkedTierCloneReturn(c) ==
    LinkedTierReturn("clone", [t |-> ltier, panic |-> c.panic],
                     IF c.panic THEN NoLinkedTier ELSE c.t)

\* clone, in a build with or without overflow checks
LinkedTierClone == \E overflow_checks \in BOOLEAN :
    LinkedTierCloneReturn(lt_clone(ltier, overflow_checks))

LinkedTierNext ==
    \/ LinkedTierPushFront
    \/ LinkedTierPushBack
    \/ LinkedTierPopFront
    \/ LinkedTierPopBack
    \/ LinkedTierRotateReset
    \/ LinkedTierMerge
    \/ LinkedTierSplitHalf
    \/ LinkedTierClone

LinkedTierInit ==
    \E cap \in TierCapacities :
        /\ LinkedTierConstructed(cap)
        /\ TierConstructed(2)
        /\ FlatConstructed(2)
        /\ ImplicitConstructed(2)
        /\ LinkedConstructed(LinkedTieredVec_new(2))

SpecLinkedTier == LinkedTierInit /\ [][LinkedTierNext]_vars

\* C33: after merge(other) on the tier of src/src/linked/tier.rs, whatever
\* the receiver's head was and whether or not its window wrapped, the tier
\* has twice the capacity and its live window reads what the receiver read
\* before followed by what other read.
C33_MergeNormalizes ==
    ltlast.op = "merge"
    => /\ ltlast.res = "Ok"
       /\ Len(ltier.elements) = 2 * Len(ltlast.pre.elements)
       /\ lt_live_values(ltier) = lt_live_values(ltlast.pre) \o lt_live_values(ltlast.other)

\* ------------------------------------------------------------------------
\* The two tiers side by side: a run constructs both with the same capacity
\* and then drives one of them, the tier of src/src/tier.rs or the tier of
\* src/src/linked/tier.rs.
\* ------------------------------------------------------------------------
EitherTierInit ==
    \E cap \in TierCapacities :
        /\ TierConstructed(cap)
        /\ LinkedTierConstructed(cap)
        /\ FlatConstructed(2)
        /\ ImplicitConstructed(2)
        /\ LinkedConstructed(LinkedTieredVec_new(2))

EitherTierNext ==
    \/ ltlast.op = "new" /\ TierOpsNext
    \/ tlast.op = "new" /\ LinkedTierNext

SpecEitherTier == EitherTierInit /\ [][EitherTierNext]_vars

\* the first k elements of a sequence, and the ones after them
first_elements(seq, k) == SubSeq(seq, 1, IF k < Len(seq) THEN k ELSE Len(seq))

rest_elements(seq, k) == SubSeq(seq, (IF k < Len(seq) THEN k ELSE Len(seq)) + 1, Len(seq))

\* C32: split_half on a tier of capacity C leaves the receiver with capacity
\* C/2, head 0 and the first min(n, C/2) elements, and returns a tier of
\* capacity C/2 with head 0 and the remaining elements, in order; merging
\* the returned half back into the receiver reads the original sequence.
\* This holds for the tier of src/src/tier.rs and for the tier of
\* src/src/linked/tier.rs.
C32_SplitHalf ==
    /\ tlast.op = "split_half"
       => /\ tier_capacity(tier) = tier_capacity(tlast.pre) \div 2
          /\ tier_capacity(tlast.other) = tier_capacity(tlast.pre) \div 2
          /\ tier.head = 0 /\ tlast.other.head = 0
          /\ live_values(tier)
                 = first_elements(live_values(tlast.pre), tier_capacity(tlast.pre) \div 2)
          /\ live_values(tlast.other)
                 = rest_elements(live_values(tlast.pre), tier_capacity(tlast.pre) \div 2)
          /\ ~merge(tier, tlast.other).panic
          /\ live_values(merge(tier, tlast.other).t) = live_values(tlast.pre)
    /\ ltlast.op = "split_half"
       => /\ Len(ltier.elements) = Len(ltlast.pre.elements) \div 2
          /\ Len(ltlast.other.elements) = Len(ltlast.pre.elements) \div 2
          /\ ltier.head = 0 /\ ltlast.other.head = 0
          /\ lt_live_values(ltier)
                 = first_elements(lt_live_values(ltlast.pre), Len(ltlast.pre.elements) \div 2)
          /\ lt_live_values(ltlast.other)
                 = rest_elements(lt_live_values(ltlast.pre), Len(ltlast.pre.elements) \div 2)
          /\ ~lt_merge(ltier, ltlast.other).panic
          /\ lt_live_values(lt_merge(ltier, ltlast.other).t) = lt_live_values(ltlast.pre)

\* a split of a linked tier whose window wrapped and held more than half
\* the capacity in initialised elements: both halves are non-empty
C32_Witness ==
    /\ ltlast.op = "split_half"
    /\ lt_masked_head(ltlast.pre) > lt_masked_tail(ltlast.pre)
    /\ lt_len(ltlast.other) > 0
    /\ lt_len(ltier) = Len(ltier.elements)
    /\ \A i \in 1..lt_len(ltlast.pre) : lt_live_values(ltlast.pre)[i] # Uninit

\* the physical slot (a buffer position) of rank r in the tier t
slot_of_rank(t, r) == masked_rank(t, r) + 1

\* insert(rank, _) on t is an interior insert that takes the head-ward shift
inserts_toward_head(t, rank) ==
    /\ ~tier_is_full(t)
    /\ 0 < rank /\ rank < tier_len(t)
    /\ abs_diff(masked_rank(t, rank), masked_head(t))
           <= abs_diff(masked_rank(t, rank), masked_tail(t))

\* C34: an insert into a non-full tier at an interior rank whose slot is at
\* least as close to masked_head as to masked_tail returns Ok, moves head
\* back by one, moves the elements of ranks 0..=rank one slot toward the
\* head, leaves the elements of the higher ranks and the tail in place and
\* writes the new element into the slot that rank occupied before the call.
C34_InsertShiftsHead ==
    (tlast.op = "insert" /\ inserts_toward_head(tlast.pre, tlast.rank)) =>
        /\ tlast.res[1] = "Ok"
        /\ tier.head = WSub(tlast.pre.head, 1)
        /\ tier.tail = tlast.pre.tail
        /\ \A r \in 0..tlast.rank :
               tier.buffer[mask(tlast.pre, WSub(masked_rank(tlast.pre, r), 1)) + 1]
                   = tlast.pre.buffer[slot_of_rank(tlast.pre, r)]
        /\ \A r \in (tlast.rank + 1)..(tier_len(tlast.pre) - 1) :
               tier.buffer[slot_of_rank(tlast.pre, r)]
                   = tlast.pre.buffer[slot_of_rank(tlast.pre, r)]
        /\ tier.buffer[slot_of_rank(tlast.pre, tlast.rank)] = tlast.elem

\* the test's case: three elements pushed at the back of a tier of capacity
\* 4, then insert at rank 1; the buffer [a, b, c, _] becomes [b, new, c, a]
\* and masked_head is 3
C34_Witness ==
    /\ tlast.op = "insert" /\ tlast.rank = 1
    /\ tlast.pre = [buffer |-> <<1, 2, 3, Uninit>>, head |-> 0, tail |-> 3, vcap |-> 4]
    /\ tier.buffer = <<2, 4, 3, 1>>
    /\ masked_head(tier) = 3

\* C35: Tier::insert(rank, elem) on a non-full tier with rank > len,
\* ranks >= capacity included, returns
\* Err(TierDisconnectedEntryInsertionError(rank, elem)) and leaves head,
\* tail and every slot of the tier as they were.
C35_DisconnectedInsert ==
    (tlast.op = "insert" /\ ~tier_is_full(tlast.pre) /\ tlast.rank > tier_len(tlast.pre)) =>
        /\ tlast.res = <<"TierDisconnectedEntryInsertionError", tlast.rank, tlast.elem>>
        /\ tier = tlast.pre

\* C36: a LinkedTieredVec::remove call that returns an error leaves the
\* vector as it was: tier_size(), capacity(), len() and the element
\* sequence after the call are those before it.
C36_FailedRemoveIsNoOp ==
    [][(last'.op = "remove" /\ last'.res \notin {"Ok", "panic"} /\ last' # last)
           => /\ tier_size(tiers') = tier_size(tiers)
              /\ capacity(tiers') = capacity(tiers)
              /\ vec_len(tiers') = vec_len(tiers)
              /\ observe(tiers') = observe(tiers)]_vars

\* the position in the vector's buffer of the slot that get_by_rank(rank)
\* and get_mut_by_rank(rank) hand out a reference to
implicit_slot_by_rank(v, rank) ==
    implicit_tier_idx(v, rank) * Len(v.offsets)
        + it_masked_rank(implicit_tier(v, implicit_tier_idx(v, rank)), rank)

implicit_slot_mut_by_rank(v, rank) ==
    implicit_tier_idx(v, rank)
        + it_masked_rank(implicit_tier(v, implicit_tier_idx(v, rank)), rank)

\* C37: for every rank < len of an ImplicitTieredVec, get_mut_by_rank(rank)
\* refers to the element get_by_rank(rank) refers to: the same slot of the
\* buffer, holding the same value, also for ranks in a tier other than 0.
C37_GetMutSameElement ==
    ilast.res[1] # "panic" =>
        \A rank \in 0..(implicit_len(ivec) - 1) :
            /\ implicit_get_mut_by_rank(ivec, rank) = implicit_get_by_rank(ivec, rank)
            /\ implicit_slot_mut_by_rank(ivec, rank) = implicit_slot_by_rank(ivec, rank)

\* A vector that is emptied and filled again: removes at the front, which
\* fail on the empty vector (and may contract it), and inserts at the front
\* or the end.
RegrowRemoveStep ==
    /\ vec_len(tiers) = 0 \/ hist.ok_removes < MaxRegrowRemoves
    /\ RemoveCall(0)

RegrowInsertStep ==
    \E rank \in {0, vec_len(tiers)} :
        hist.ok_inserts < MaxRegrowInserts /\ InsertCall(rank)

RegrowNext == RegrowRemoveStep \/ RegrowInsertStep

SpecRegrow == ScenarioInit /\ [][RegrowNext]_vars

\* C38: in every state of a LinkedTieredVec, get_by_rank(rank) is Some
\* exactly for the ranks below len(): it is None for every rank from len()
\* on, in the partially filled tier, in the empty tiers and at or beyond
\* capacity().
C38_GetByRankSomeIffBelowLen ==
    last.res # "panic" =>
        \A rank \in 0..(capacity(tiers) + tier_size(tiers)) :
            get_by_rank(tiers, rank) # <<>> <=> rank < vec_len(tiers)

\* C39: cloning a tier in any state, also when push_front has taken head
\* below zero (head == 2^w - 1), completes: the cursor walk from head to
\* tail does not overflow, and the clone has the head, the tail, the len and
\* the element sequence of the original.  This holds for the tier of
\* src/src/tier.rs and for the tier of src/src/linked/tier.rs.
C39_CloneIsFaithful ==
    /\ tlast.op = "clone"
       => /\ tlast.res[1] = "Ok"
          /\ tlast.other.head = tier.head /\ tlast.other.tail = tier.tail
          /\ tier_len(tlast.other) = tier_len(tier)
          /\ live_values(tlast.other) = live_values(tier)
    /\ ltlast.op = "clone"
       => /\ ltlast.res = "Ok"
          /\ ltlast.other.head = ltier.head /\ ltlast.other.tail = ltier.tail
          /\ lt_len(ltlast.other) = lt_len(ltier)
          /\ lt_live_values(ltlast.other) = lt_live_values(ltier)

====
